---- MODULE Spec2Model ----
(***************************************************************************)
(* CampusSense threshold alerting.                                         *)
(*                                                                         *)
(* Two engines live in the repository and are modelled side by side:       *)
(*   - the in-memory hysteresis engine of server.js (ALERT_THRESHOLDS,     *)
(*     currentAlertState, checkThresholdAndState, checkForAlerts,          *)
(*     loadThresholdsFromDB), fed by the MQTT message handler;             *)
(*   - the gated engine of services/supabaseClient.js                      *)
(*     (processThresholdAlerts with its window and cooldown gates and the  *)
(*     settings API that writes the rows it reads).                        *)
(***************************************************************************)
EXTENDS Integers, Sequences, FiniteSets, TLC

VARIABLES
  alert_thresholds,   \* table alert_thresholds: metric -> [threshold_value, alert_if_above]
  ALERT_THRESHOLDS,   \* server.js:50
  currentAlertState,  \* server.js:51
  pendingLoads,       \* results of getThresholds() whose await has not resumed yet
  started,            \* initializeApp has loaded the thresholds and started MQTT
  lastData,           \* the normalised reading evaluated by the last step, if it evaluated one
  prevAlertState,     \* currentAlertState as that evaluation found it
  msgs,               \* the msgs array checkForAlerts handed to sendAlertToAll in the last step
  lastOp,             \* what the last step was
  trace,              \* scenario runs: the readings fed so far, each with its outcome
  app_settings,       \* row 'global' of table app_settings
  user_settings,      \* table user_settings: user_id -> row
  clock,              \* Date.now() in minutes, counted from local midnight of the first day
  ticks,              \* how many times the clock has advanced
  result,             \* what processThresholdAlerts returned, if the last step called it
  lastAlert,          \* the evaluation that last triggered: who, when, under which alert_rate
  probe,              \* a crossing test applied to one value and one limit
  user_settings_exists, \* whether the relation user_settings exists in the database
  reply,              \* the settings POST made by the last step, if it made one: body and status
  inflight,           \* evaluations of processThresholdAlerts suspended at an await
  fanout,             \* a call of sendStructuredAlert: its list, its position, its sends so far
  tasks,              \* handlers that have begun and not yet returned
  lastAlertTime,      \* part_005, anti-spam variant: let lastAlertTime
  dateNow,            \* Date.now() in ms, counted from a start long after the epoch
  inserts,            \* the co2_ppm of each row insertSensorData was called with
  alertsSent,         \* the alert requests issued: channel, Date.now() then, message
  suppressed          \* the messages whose handler returned at the anti-spam test

engineVars == <<alert_thresholds, ALERT_THRESHOLDS, currentAlertState,
                pendingLoads, started, lastData, prevAlertState, msgs, lastOp>>

gateVars == <<app_settings, user_settings, clock, ticks, result, lastAlert>>

spamVars == <<lastAlertTime, dateNow, inserts, alertsSent, suppressed>>

loopVars == <<tasks, spamVars>>

sideVars == <<user_settings_exists, reply, inflight, fanout, loopVars>>

vars == <<engineVars, trace, gateVars, probe, sideVars>>

----------------------------------------------------------------------------
(* JavaScript values: finite numbers carry n, the others are tags.         *)

Num(n) == [t |-> "num", n |-> n]
Null == [t |-> "null", n |-> 0]
Undefined == [t |-> "undefined", n |-> 0]
NaN == [t |-> "NaN", n |-> 0]
PosInf == [t |-> "Infinity", n |-> 0]
NegInf == [t |-> "-Infinity", n |-> 0]
Text == [t |-> "string", n |-> 0]     \* a string that is not a numeral
EmptyText == [t |-> "empty-string", n |-> 0]     \* the string ''

typeofNumber(v) == v.t \in {"num", "NaN", "Infinity", "-Infinity"}

isFinite(v) == v.t = "num"

\* a > b on JavaScript numbers
jsGt(a, b) ==
  CASE a.t = "NaN" \/ b.t = "NaN" -> FALSE
    [] a.t = "Infinity" -> b.t # "Infinity"
    [] a.t = "-Infinity" -> FALSE
    [] OTHER -> b.t = "-Infinity" \/ (b.t = "num" /\ a.n > b.n)

\* a < b on JavaScript numbers
jsLt(a, b) == jsGt(b, a)

\* Number(x)
ToNumber(x) ==
  CASE x.t \in {"num", "NaN", "Infinity", "-Infinity"} -> x
    [] x.t \in {"null", "empty-string"} -> Num(0)
    [] OTHER -> NaN

\* Number(x) || null
NumberOrNull(x) ==
  LET n == ToNumber(x)
  IN IF n.t = "NaN" \/ (n.t = "num" /\ n.n = 0) THEN Null ELSE n

----------------------------------------------------------------------------
(* Bounds of the model.                                                    *)

\* how many getThresholds() reads may be in flight at once
MaxPending == 1

\* raw values a sensor message carries per field
Co2Values == {Num(300), Num(450), Num(520), Num(0), PosInf, NegInf, Text, Undefined}

RainValues == {Num(50), Num(90), Undefined}

RawReadings ==
  {[bmp_temp |-> Undefined, pressure |-> Undefined, co2_ppm |-> a,
    uv_index |-> Undefined, rain_pcnt |-> b] : a \in Co2Values, b \in RainValues}

\* the threshold value written for each metric
RuleValue(m) == IF m = "aqi" THEN 450 ELSE 70

\* request bodies of POST /api/set-thresholds
Bodies == {[m \in {x} |-> Num(RuleValue(x))] : x \in {"aqi", "rain_percentage", "rain"}}
            \cup {[m \in {"aqi"} |-> Text]}

\* the aqi readings of scenario runs, and how many readings a run feeds
ScenarioValues == {300, 500, 520, 530}

MaxTrace == 4

\* rows that are deleted in the database (a metric removed or renamed)
Removable == {"rain_percentage", "rain"}

\* alert_if_above of a row the upsert creates (the column default)
DefaultAbove == TRUE

----------------------------------------------------------------------------
(* server.js                                                               *)

REQUIRED_CONSECUTIVE_READINGS == 2

EmptyMap == [m \in {} |-> 0]

NoMsg == [metric |-> "none", value |-> Null, comp |-> "none", tVal |-> Null]

MessageMetrics == {"aqi", "uv", "bmp_temp", "pressure", "rain_percentage"}

\* a list whose rain check keeps its state under the key of the aqi check
checksSharingKey == << <<"aqi", "aqi", "aqi">>,
                       <<"uv", "uv", "uv">>,
                       <<"bmp_temp", "bmp_temp", "bmp_temp">>,
                       <<"pressure", "pressure", "pressure">>,
                       <<"rain_percentage", "aqi", "rain_percentage">> >>

\* [metric, stateKey, field of data]
checks == << <<"aqi", "aqi", "aqi">>,
             <<"uv", "uv", "uv">>,
             <<"bmp_temp", "bmp_temp", "bmp_temp">>,
             <<"pressure", "pressure", "pressure">>,
             <<"rain_percentage", "rain", "rain_percentage">> >>

isMetInclusive(tInfo, currentValue) ==
  IF tInfo.alert_if_above THEN ~jsLt(currentValue, tInfo.value) /\ currentValue.t # "NaN"
  ELSE ~jsGt(currentValue, tInfo.value) /\ currentValue.t # "NaN"

isMet(tInfo, currentValue) ==
  IF tInfo.alert_if_above
    THEN jsGt(currentValue, tInfo.value)
    ELSE jsLt(currentValue, tInfo.value)

\* a confirmation count of one: the first crossing reading already latches
reachedRequiredFirst(count) == count >= 1

\* a confirmation that asks for one crossing reading more
reachedRequiredLate(count) == count > REQUIRED_CONSECUTIVE_READINGS

\* state.consecutiveCount >= REQUIRED_CONSECUTIVE_READINGS
reachedRequired(count) == count >= REQUIRED_CONSECUTIVE_READINGS

\* the else branch forgetting to drop the latch
clearedStateKeepsLatch(state) == [state EXCEPT !.consecutiveCount = 0]

\* the else branch: consecutiveCount = 0, alarming = false
clearedState(state) == [alarming |-> FALSE, consecutiveCount |-> 0]

\* a test that counts a crossing reading whether or not the metric is latched
mayCountAlways(state) == TRUE

\* if (!state.alarming): only a metric that is not latched counts a crossing
mayCount(state) == ~state.alarming

\* One call: the new state table, the message (NoMsg for null) and whether the
\* call threw (reading a field of an undefined state entry).
checkThresholdAndState(thr, st, metricName, stateKey, currentValue) ==
  IF metricName \notin DOMAIN thr
    THEN [st |-> st, alertMsg |-> NoMsg, threw |-> FALSE]
  ELSE IF ~typeofNumber(currentValue)
    THEN [st |-> st, alertMsg |-> NoMsg, threw |-> FALSE]
  ELSE IF stateKey \notin DOMAIN st
    THEN [st |-> st, alertMsg |-> NoMsg, threw |-> TRUE]
  ELSE
    LET tInfo == thr[metricName]
        state == st[stateKey]
    IN IF isMet(tInfo, currentValue)
         THEN IF mayCount(state)
                THEN IF reachedRequired(state.consecutiveCount + 1)
                       THEN [st |-> [st EXCEPT ![stateKey] =
                                       [alarming |-> TRUE, consecutiveCount |-> 0]],
                             alertMsg |->
                               IF metricName \in MessageMetrics
                                 THEN [metric |-> metricName,
                                       value |-> currentValue,
                                       comp |-> IF tInfo.alert_if_above
                                                  THEN "Above" ELSE "Below",
                                       tVal |-> tInfo.value]
                                 ELSE NoMsg,
                             threw |-> FALSE]
                       ELSE [st |-> [st EXCEPT ![stateKey].consecutiveCount = @ + 1],
                             alertMsg |-> NoMsg, threw |-> FALSE]
                ELSE [st |-> st, alertMsg |-> NoMsg, threw |-> FALSE]
         ELSE [st |-> [st EXCEPT ![stateKey] = clearedState(state)],
               alertMsg |-> NoMsg, threw |-> FALSE]

\* a push that keeps the latest message only
pushedLast(acc, alertMsg) == IF alertMsg # NoMsg THEN << alertMsg >> ELSE acc

\* if (msg) msgs.push(msg)
pushed(acc, alertMsg) == IF alertMsg # NoMsg THEN Append(acc, alertMsg) ELSE acc

\* the for loop of checkForAlerts from check i on
RECURSIVE runChecks(_, _, _, _, _)
runChecks(thr, st, data, i, acc) ==
  IF i > Len(checks)
    THEN [st |-> st, msgs |-> acc, threw |-> FALSE]
    ELSE LET r == checkThresholdAndState(thr, st, checks[i][1], checks[i][2],
                                         data[checks[i][3]])
         IN IF r.threw
              THEN [st |-> r.st, msgs |-> acc, threw |-> TRUE]
              ELSE runChecks(thr, r.st, data, i + 1, pushed(acc, r.alertMsg))

checkForAlerts(thr, st, data) ==
  IF DOMAIN thr = {}
    THEN [st |-> st, msgs |-> <<>>, threw |-> FALSE]
    ELSE runChecks(thr, st, data, 1, <<>>)

stateKeyOf(m) == IF m = "rain_percentage" THEN "rain" ELSE m

\* the forEach keying the entries by metric name, without the rain key
freshAlertStateByMetric(thr) ==
  [k \in DOMAIN thr |-> [alarming |-> FALSE, consecutiveCount |-> 0]]

\* the table built by the forEach of loadThresholdsFromDB
freshAlertState(thr) ==
  [k \in {stateKeyOf(m) : m \in DOMAIN thr} |->
     [alarming |-> FALSE, consecutiveCount |-> 0]]

\* getThresholds(): the map of the rows, or null when the read fails
getThresholds(table, ok) ==
  IF ok
    THEN [isNull |-> FALSE,
          map |-> [m \in DOMAIN table |->
                     [value |-> Num(table[m].threshold_value),
                      alert_if_above |-> table[m].alert_if_above]]]
    ELSE [isNull |-> TRUE, map |-> EmptyMap]

\* updateThresholds(): the rows after the upsert; a new row takes the column default
updateThresholds(table, body, dflt) ==
  LET ups == {m \in DOMAIN body : ToNumber(body[m]).t # "NaN"}
  IN [m \in DOMAIN table \cup ups |->
        IF m \in ups
          THEN [threshold_value |-> ToNumber(body[m]).n,
                alert_if_above |-> IF m \in DOMAIN table
                                     THEN table[m].alert_if_above ELSE dflt]
          ELSE table[m]]

normalizeReading(r) ==
  [bmp_temp |-> NumberOrNull(r.bmp_temp),
   pressure |-> NumberOrNull(r.pressure),
   aqi |-> NumberOrNull(r.co2_ppm),
   uv |-> NumberOrNull(r.uv_index),
   rain_percentage |-> NumberOrNull(r.rain_pcnt)]

NoData == [bmp_temp |-> Null, pressure |-> Null, aqi |-> Null, uv |-> Null,
           rain_percentage |-> Null]

----------------------------------------------------------------------------
(* Actions of the server.js engine                                         *)

RemoveAt(s, i) == SubSeq(s, 1, i - 1) \o SubSeq(s, i + 1, Len(s))

\* what a step that evaluates no reading leaves in the observation variables
NoEval(op) ==
  /\ lastData' = NoData
  /\ prevAlertState' = EmptyMap
  /\ msgs' = <<>>
  /\ lastOp' = op

\* initializeApp: the first loadThresholdsFromDB, up to its await
InitializeApp ==
  /\ ~started
  /\ pendingLoads = <<>>
  /\ \E ok \in BOOLEAN :
       pendingLoads' = Append(pendingLoads, getThresholds(alert_thresholds, ok))
  /\ NoEval("other")
  /\ UNCHANGED <<alert_thresholds, ALERT_THRESHOLDS, currentAlertState, started>>
  /\ UNCHANGED <<trace, gateVars, probe, sideVars>>

\* loadThresholdsFromDB after its await
ResumeLoad ==
  /\ \E i \in 1..Len(pendingLoads) :
       LET tFromDB == pendingLoads[i]
       IN /\ pendingLoads' = RemoveAt(pendingLoads, i)
          /\ IF ~tFromDB.isNull
               THEN /\ ALERT_THRESHOLDS' = tFromDB.map
                    /\ currentAlertState' = freshAlertState(tFromDB.map)
                    /\ NoEval("load")
               ELSE /\ UNCHANGED <<ALERT_THRESHOLDS, currentAlertState>>
                    /\ NoEval("load_failed")
  /\ started' = TRUE
  /\ UNCHANGED alert_thresholds
  /\ UNCHANGED <<trace, gateVars, probe, sideVars>>

\* POST /api/set-thresholds: updateThresholds, then loadThresholdsFromDB up to
\* its await
PostSetThresholds ==
  /\ started
  /\ \E body \in Bodies, success \in BOOLEAN, ok \in BOOLEAN :
       IF success
         THEN /\ Len(pendingLoads) < MaxPending
              /\ alert_thresholds' =
                   updateThresholds(alert_thresholds, body, DefaultAbove)
              /\ pendingLoads' = Append(pendingLoads,
                                        getThresholds(alert_thresholds', ok))
         ELSE UNCHANGED <<alert_thresholds, pendingLoads>>
  /\ NoEval("other")
  /\ UNCHANGED <<ALERT_THRESHOLDS, currentAlertState, started>>
  /\ UNCHANGED <<trace, gateVars, probe, sideVars>>

\* a row of alert_thresholds is deleted in the database
DbDeleteRow ==
  /\ \E m \in DOMAIN alert_thresholds \cap Removable :
       alert_thresholds' =
         [x \in DOMAIN alert_thresholds \ {m} |-> alert_thresholds[x]]
  /\ NoEval("other")
  /\ UNCHANGED <<ALERT_THRESHOLDS, currentAlertState, pendingLoads, started>>
  /\ UNCHANGED <<trace, gateVars, probe, sideVars>>

\* the MQTT message handler: normalise, insertSensorData, then checkForAlerts
HandleMessage(r, success) ==
  /\ started
  /\ IF success
       THEN \E data \in {normalizeReading(r)} :
              \E res \in {checkForAlerts(ALERT_THRESHOLDS, currentAlertState, data)} :
                /\ lastData' = data
                /\ prevAlertState' = currentAlertState
                /\ currentAlertState' = res.st
                /\ msgs' = res.msgs
                /\ lastOp' = IF res.threw THEN "eval_threw" ELSE "eval"
       ELSE /\ UNCHANGED currentAlertState
            /\ NoEval("insert_failed")
  /\ UNCHANGED <<alert_thresholds, ALERT_THRESHOLDS, pendingLoads, started>>

MqttMessage ==
  /\ \E r \in RawReadings, success \in BOOLEAN : HandleMessage(r, success)
  /\ UNCHANGED <<trace, gateVars, probe, sideVars>>

\* the database as deployed: aqi in either direction, rain_percentage above
InitEngine ==
  /\ \E above \in BOOLEAN :
       alert_thresholds =
         [m \in {"aqi", "rain_percentage"} |->
            [threshold_value |-> RuleValue(m),
             alert_if_above |-> IF m = "aqi" THEN above ELSE TRUE]]
  /\ ALERT_THRESHOLDS = EmptyMap
  /\ currentAlertState = EmptyMap
  /\ pendingLoads = <<>>
  /\ started = FALSE
  /\ lastData = NoData
  /\ prevAlertState = EmptyMap
  /\ msgs = <<>>
  /\ lastOp = "start"

----------------------------------------------------------------------------
(* services/supabaseClient.js: settings rows, the window gate and the      *)
(* cooldown gate. Times of day are HH:MM strings with two-digit hours,     *)
(* held as [h, m]; NoTime stands for an absent or ill-formed string.       *)

Bool(b) == [t |-> "boolean", n |-> IF b THEN 1 ELSE 0]

T(h, m) == [h |-> h, m |-> m]

NoTime == [h |-> -1, m |-> -1]

\* TIME_REGEX.test(time)
TIME_REGEX(time) == time.h \in 0..23 /\ time.m \in 0..59

DEFAULT_USER_ID == "global-user"

DEFAULT_APP_SETTINGS ==
  [threshold_aqi |-> Num(450), threshold_uv |-> Num(7),
   threshold_bmp_temp |-> Num(28), threshold_pressure |-> Num(990),
   threshold_rain_percentage |-> Num(70),
   report_times |-> <<T(9, 0), T(12, 0), T(18, 0)>>, alert_rate |-> "immediate"]

DEFAULT_USER_SETTINGS ==
  [temp_threshold |-> Num(28), humidity_threshold |-> Num(80),
   pressure_threshold |-> Num(990), notification_enabled |-> TRUE,
   notify_start_time |-> T(0, 0), notify_end_time |-> T(23, 59),
   alert_cooldown_minutes |-> Num(15), last_alert_sent |-> Null]

ALLOWED_ALERT_RATES == {"immediate", "15min", "30min", "hourly"}

\* the column defaults of table user_settings
UserSettingsColumnDefaults ==
  [temp_threshold |-> Num(28), humidity_threshold |-> Num(80),
   pressure_threshold |-> Num(990), notification_enabled |-> TRUE,
   notify_start_time |-> T(0, 0), notify_end_time |-> T(23, 59),
   alert_cooldown_minutes |-> Num(15), last_alert_sent |-> Null]

UserSettingsColumns == DOMAIN UserSettingsColumnDefaults

safeNumber(value, fallback) ==
  LET n == ToNumber(value) IN IF isFinite(n) THEN n ELSE fallback

\* a ?? b
Coalesce(a, b) == IF a.t \in {"null", "undefined"} THEN b ELSE a

\* a >= b on numbers
jsGe(a, b) == a.t # "NaN" /\ b.t # "NaN" /\ ~jsGt(b, a)

jsLe(a, b) == jsGe(b, a)

RECURSIVE normalizeTimes(_)
normalizeTimes(times) ==
  IF times = <<>> THEN <<>>
  ELSE LET rest == normalizeTimes(SubSeq(times, 1, Len(times) - 1))
           time == times[Len(times)]
       IN IF TIME_REGEX(time) /\ \A j \in 1..Len(rest) : rest[j] # time
          THEN Append(rest, time) ELSE rest

normalizeTimeValue(value, fallback) ==
  IF TIME_REGEX(value) THEN value ELSE fallback

hhmmToMinutes(time) ==
  LET normalized == normalizeTimeValue(time, T(0, 0))
  IN normalized.h * 60 + normalized.m

isWithinTimeWindowNoWrap(currentTime, startTime, endTime) ==
  hhmmToMinutes(currentTime) >= hhmmToMinutes(startTime)
    /\ hhmmToMinutes(currentTime) <= hhmmToMinutes(endTime)

isWithinTimeWindow(currentTime, startTime, endTime) ==
  LET now == hhmmToMinutes(currentTime)
      start == hhmmToMinutes(startTime)
      end == hhmmToMinutes(endTime)
  IN IF start <= end THEN now >= start /\ now <= end
     ELSE now >= start \/ now <= end

\* the wall clock of the configured timezone at instant now
getCurrentTimeInTimezone(now) == T((now \div 60) % 24, now % 60)

getRateCooldownMinutes(alertRate) ==
  CASE alertRate = "immediate" -> 1
    [] alertRate = "15min" -> 15
    [] alertRate = "30min" -> 30
    [] alertRate = "hourly" -> 60
    [] OTHER -> 15

getRateCooldownMs(alertRate, explicitMinutes) ==
  LET n == ToNumber(explicitMinutes)
      mins == IF isFinite(n) THEN (IF n.n > 1 THEN n.n ELSE 1)
              ELSE getRateCooldownMinutes(alertRate)
  IN mins * 60 * 1000

\* sorted[0] and sorted[sorted.length - 1] of the sorted valid times
deriveWindowFromReportTimes(reportTimes) ==
  LET valid == normalizeTimes(reportTimes)
      first == CHOOSE a \in 1..Len(valid) :
                 \A b \in 1..Len(valid) : hhmmToMinutes(valid[a]) <= hhmmToMinutes(valid[b])
      last == CHOOSE a \in 1..Len(valid) :
                \A b \in 1..Len(valid) : hhmmToMinutes(valid[a]) >= hhmmToMinutes(valid[b])
  IN IF valid = <<>>
     THEN [notify_start_time |-> DEFAULT_USER_SETTINGS.notify_start_time,
           notify_end_time |-> DEFAULT_USER_SETTINGS.notify_end_time]
     ELSE [notify_start_time |-> valid[first], notify_end_time |-> valid[last]]

normalizeAppSettingsRow(row) ==
  LET reportTimes == normalizeTimes(row.report_times)
  IN [threshold_aqi |->
        safeNumber(row.threshold_aqi, DEFAULT_APP_SETTINGS.threshold_aqi),
      threshold_uv |->
        safeNumber(row.threshold_uv, DEFAULT_APP_SETTINGS.threshold_uv),
      threshold_bmp_temp |->
        safeNumber(row.threshold_bmp_temp, DEFAULT_APP_SETTINGS.threshold_bmp_temp),
      threshold_pressure |->
        safeNumber(row.threshold_pressure, DEFAULT_APP_SETTINGS.threshold_pressure),
      threshold_rain_percentage |->
        safeNumber(row.threshold_rain_percentage,
                   DEFAULT_APP_SETTINGS.threshold_rain_percentage),
      report_times |-> IF Len(reportTimes) > 0 THEN reportTimes
                       ELSE DEFAULT_APP_SETTINGS.report_times,
      alert_rate |-> IF row.alert_rate # "" THEN row.alert_rate
                     ELSE DEFAULT_APP_SETTINGS.alert_rate]

normalizeUserSettingsRow(row, appSettings) ==
  LET fallbackStartEnd == deriveWindowFromReportTimes(appSettings.report_times)
  IN [temp_threshold |-> safeNumber(row.temp_threshold, appSettings.threshold_bmp_temp),
      humidity_threshold |->
        safeNumber(row.humidity_threshold, DEFAULT_USER_SETTINGS.humidity_threshold),
      pressure_threshold |->
        safeNumber(row.pressure_threshold, appSettings.threshold_pressure),
      notification_enabled |-> row.notification_enabled # FALSE,
      notify_start_time |->
        normalizeTimeValue(row.notify_start_time, fallbackStartEnd.notify_start_time),
      notify_end_time |->
        normalizeTimeValue(row.notify_end_time, fallbackStartEnd.notify_end_time),
      alert_cooldown_minutes |->
        safeNumber(row.alert_cooldown_minutes,
                   Num(getRateCooldownMinutes(appSettings.alert_rate))),
      last_alert_sent |-> row.last_alert_sent]

getAppSettings(row) == normalizeAppSettingsRow(row)

\* the row read, or the row inserted when the user has none (createIfMissing)
getUserSettings(table, userId, appSettings) ==
  IF userId \in DOMAIN table
  THEN [table |-> table, settings |-> normalizeUserSettingsRow(table[userId], appSettings)]
  ELSE LET startEnd == deriveWindowFromReportTimes(appSettings.report_times)
           insertPayload ==
             [temp_threshold |-> appSettings.threshold_bmp_temp,
              humidity_threshold |-> DEFAULT_USER_SETTINGS.humidity_threshold,
              pressure_threshold |-> appSettings.threshold_pressure,
              notification_enabled |-> DEFAULT_USER_SETTINGS.notification_enabled,
              notify_start_time |-> startEnd.notify_start_time,
              notify_end_time |-> startEnd.notify_end_time,
              alert_cooldown_minutes |-> Num(getRateCooldownMinutes(appSettings.alert_rate)),
              last_alert_sent |-> Null]
       IN [table |-> [u \in DOMAIN table \cup {userId} |->
                        IF u = userId THEN insertPayload ELSE table[u]],
           settings |-> normalizeUserSettingsRow(insertPayload, appSettings)]

\* an upsert that writes the whole row: the columns not named take their
\* column default
upsertUserSettingsReplacing(table, userId, partialSettings) ==
  LET row == [c \in UserSettingsColumns |->
                IF c \in DOMAIN partialSettings THEN partialSettings[c]
                ELSE UserSettingsColumnDefaults[c]]
  IN [u \in DOMAIN table \cup {userId} |-> IF u = userId THEN row ELSE table[u]]

\* upsert on user_id: the named columns are written, the others keep their
\* value, or take the column default when the row is new
upsertUserSettings(table, userId, partialSettings) ==
  LET old == IF userId \in DOMAIN table THEN table[userId] ELSE UserSettingsColumnDefaults
      row == [c \in UserSettingsColumns |->
                IF c \in DOMAIN partialSettings THEN partialSettings[c] ELSE old[c]]
  IN [u \in DOMAIN table \cup {userId} |-> IF u = userId THEN row ELSE table[u]]

\* lines 761-789 of processThresholdAlerts: the alerts array
crossingAlerts(sensorData, userSettings) ==
  LET temperature == safeNumber(Coalesce(sensorData.bmp_temp, sensorData.temperature), Null)
      humidity == safeNumber(sensorData.humidity, Null)
      pressure == safeNumber(sensorData.pressure, Null)
  IN (IF isFinite(temperature) /\ jsGe(temperature, userSettings.temp_threshold)
      THEN << [type |-> "temperature_high", value |-> temperature,
               threshold |-> userSettings.temp_threshold] >>
      ELSE <<>>)
     \o
     (IF isFinite(humidity) /\ jsGe(humidity, userSettings.humidity_threshold)
      THEN << [type |-> "humidity_high", value |-> humidity,
               threshold |-> userSettings.humidity_threshold] >>
      ELSE <<>>)
     \o
     (IF isFinite(pressure) /\ isFinite(userSettings.pressure_threshold)
         /\ jsLe(pressure, userSettings.pressure_threshold)
      THEN << [type |-> "pressure_low", value |-> pressure,
               threshold |-> userSettings.pressure_threshold] >>
      ELSE <<>>)

\* what the call returns, the table as it leaves it, and what it read on the way
processThresholdAlerts(appRow, table, userId, sensorData, now) ==
  LET appSettings == getAppSettings(appRow)
      read == getUserSettings(table, userId, appSettings)
      userSettings == read.settings
      nowTime == getCurrentTimeInTimezone(now)
      alerts == crossingAlerts(sensorData, userSettings)
      cooldownMs == getRateCooldownMs(appSettings.alert_rate,
                                      userSettings.alert_cooldown_minutes)
      out(triggered, reason, sent, ms, tbl) ==
        [kind |-> "evaluation", user |-> userId, sensorData |-> sensorData,
         at |-> now, rate |-> appSettings.alert_rate, settings |-> userSettings,
         triggered |-> triggered, reason |-> reason, alerts |-> sent,
         cooldownMs |-> ms, table |-> tbl, fault |-> "none",
         logged |-> Len(sent), notified |-> triggered]
  IN IF ~userSettings.notification_enabled
       THEN out(FALSE, "notifications-disabled", <<>>, 0, read.table)
     ELSE IF ~isWithinTimeWindow(nowTime, userSettings.notify_start_time,
                                 userSettings.notify_end_time)
       THEN out(FALSE, "outside-notification-window", <<>>, 0, read.table)
     ELSE IF Len(alerts) = 0
       THEN out(FALSE, "no-threshold-crossing", <<>>, 0, read.table)
     ELSE IF /\ userSettings.last_alert_sent.t # "null"
             /\ (now - userSettings.last_alert_sent.n) * 60 * 1000 < cooldownMs
       THEN out(FALSE, "cooldown-active", <<>>, cooldownMs, read.table)
     ELSE out(TRUE, "threshold-crossed", alerts, cooldownMs,
              upsertUserSettings(read.table, userId, [last_alert_sent |-> Num(now)]))

\* a test that lets every rate through
isAllowedRateAny(alertRate) == TRUE

\* ALLOWED_ALERT_RATES.has(alertRate)
isAllowedRate(alertRate) == alertRate \in ALLOWED_ALERT_RATES

\* the settings rows as the call leaves them; ok is false when it answers 400
setNotificationSettings(appRow, table, payload, userId) ==
  LET reportTimes == normalizeTimes(payload.report_times)
      alertRate == IF payload.alert_rate # "" THEN payload.alert_rate
                   ELSE DEFAULT_APP_SETTINGS.alert_rate
      newApp == [appRow EXCEPT !.report_times = reportTimes, !.alert_rate = alertRate]
      derivedWindow == deriveWindowFromReportTimes(reportTimes)
      notificationEnabled ==
        IF payload.notification_enabled.t = "boolean"
        THEN payload.notification_enabled.n = 1
        ELSE DEFAULT_USER_SETTINGS.notification_enabled
      written ==
        upsertUserSettings(table, userId,
          [notification_enabled |-> notificationEnabled,
           notify_start_time |->
             normalizeTimeValue(payload.notify_start_time, derivedWindow.notify_start_time),
           notify_end_time |->
             normalizeTimeValue(payload.notify_end_time, derivedWindow.notify_end_time),
           alert_cooldown_minutes |-> Num(getRateCooldownMinutes(alertRate))])
  IN IF Len(reportTimes) = 0 \/ ~isAllowedRate(alertRate)
     THEN [ok |-> FALSE, app |-> appRow, table |-> table]
     ELSE [ok |-> TRUE, app |-> newApp,
           table |-> getUserSettings(written, userId, getAppSettings(newApp)).table]

\* Math.round; the numbers of this model are whole, and a whole number
\* rounds to itself
MathRound(v) == v

\* the settings rows as the call leaves them; ok is false when it answers 400
setThresholdSettings(appRow, table, payload, userId) ==
  LET aqi == safeNumber(payload.aqi, Null)
      uv == safeNumber(payload.uv, Null)
      bmpTemp == safeNumber(payload.bmp_temp, Null)
      pressure == safeNumber(payload.pressure, Null)
      rainPercentage == safeNumber(payload.rain_percentage, Null)
      humidityThreshold == safeNumber(payload.humidity_threshold, Null)
      newApp == [appRow EXCEPT !.threshold_aqi = MathRound(aqi),
                               !.threshold_uv = uv,
                               !.threshold_bmp_temp = bmpTemp,
                               !.threshold_pressure = MathRound(pressure),
                               !.threshold_rain_percentage = MathRound(rainPercentage)]
      userUpdatePayload ==
        IF isFinite(humidityThreshold)
        THEN [temp_threshold |-> bmpTemp, pressure_threshold |-> MathRound(pressure),
              humidity_threshold |-> humidityThreshold]
        ELSE [temp_threshold |-> bmpTemp, pressure_threshold |-> MathRound(pressure)]
      written == upsertUserSettings(table, userId, userUpdatePayload)
  IN IF \/ ~isFinite(aqi) \/ ~isFinite(uv) \/ ~isFinite(bmpTemp)
        \/ ~isFinite(pressure) \/ ~isFinite(rainPercentage)
     THEN [ok |-> FALSE, app |-> appRow, table |-> table]
     ELSE [ok |-> TRUE, app |-> newApp,
           table |-> getUserSettings(written, userId, getAppSettings(newApp)).table]

\* the calls of processThresholdAlerts that can fail: the two reads of
\* configuration, logAlertEvent, insertWebNotification, upsertUserSettings
Faults == {"none", "app_read", "user_read", "log", "notify", "user_write"}

\* only getAppSettings rethrows
readsThrowAppOnly(fault) == fault = "app_read"

\* getAppSettings and getUserSettings rethrow the error of their query
readsThrow(fault) == fault \in {"app_read", "user_read"}

\* what normalizeUserSettingsRow(null, ...) is given when the relation
\* user_settings is missing
MissingRow ==
  [temp_threshold |-> Undefined, humidity_threshold |-> Undefined,
   pressure_threshold |-> Undefined, notification_enabled |-> TRUE,
   notify_start_time |-> NoTime, notify_end_time |-> NoTime,
   alert_cooldown_minutes |-> Undefined, last_alert_sent |-> Null]

\* the user_settings a call sees: the table, or nothing but defaults when the
\* relation is missing
seenBy(exists, table, userId) ==
  IF exists THEN table ELSE [u \in {userId} |-> MissingRow]

\* processThresholdAlerts when the relation user_settings may be missing and
\* one of its calls may fail: done is the call as it runs when nothing fails,
\* kind is "threw" when the error propagates
processThresholdAlertsUnder(done, appRow, exists, table, userId, fault) ==
  LET threw(logged, notified, tbl) ==
        [done EXCEPT !.kind = "threw", !.triggered = FALSE, !.reason = "",
                     !.alerts = <<>>, !.cooldownMs = 0, !.fault = fault,
                     !.rate = "", !.settings = DEFAULT_USER_SETTINGS,
                     !.logged = logged, !.notified = notified, !.table = tbl]
      stored == IF exists THEN done.table ELSE table
  IN IF fault \in {"app_read", "user_read"}
     THEN IF readsThrow(fault)
          THEN threw(0, FALSE, table)
          ELSE [done EXCEPT !.fault = fault, !.table = stored]
     ELSE IF ~done.triggered \/ fault = "none"
       THEN [done EXCEPT !.table = stored]
     ELSE IF fault = "log"
       THEN [done EXCEPT !.fault = fault, !.logged = 0, !.table = stored]
     ELSE IF fault = "notify"
       THEN [done EXCEPT !.fault = fault, !.notified = FALSE, !.table = stored]
     ELSE threw(Len(done.alerts), TRUE,
                IF exists
                THEN getUserSettings(table, userId, getAppSettings(appRow)).table
                ELSE table)

\* who calls, what the settings page posts, what the sensors report, when
\* the first call comes and how far apart the calls are
Users == {DEFAULT_USER_ID, "user-2"}

ReportTimes == <<T(9, 0), T(12, 0), T(18, 0)>>

NotificationPayloads ==
  {[report_times |-> ReportTimes, alert_rate |-> r, notify_start_time |-> NoTime,
    notify_end_time |-> NoTime, notification_enabled |-> Undefined] :
     r \in {"immediate", "hourly", "", "daily"}}
  \cup
  {[report_times |-> ReportTimes, alert_rate |-> "hourly", notify_start_time |-> T(22, 0),
    notify_end_time |-> T(6, 0), notification_enabled |-> Bool(TRUE)],
   [report_times |-> ReportTimes, alert_rate |-> "hourly", notify_start_time |-> NoTime,
    notify_end_time |-> NoTime, notification_enabled |-> Bool(FALSE)],
   [report_times |-> << NoTime >>, alert_rate |-> "hourly", notify_start_time |-> NoTime,
    notify_end_time |-> NoTime, notification_enabled |-> Undefined]}

GateReadings ==
  {[bmp_temp |-> Num(30), temperature |-> Undefined, humidity |-> Undefined,
    pressure |-> Undefined],
   [bmp_temp |-> Num(20), temperature |-> Undefined, humidity |-> Num(50),
    pressure |-> Num(1000)],
   [bmp_temp |-> Num(20), temperature |-> Undefined, humidity |-> Num(50),
    pressure |-> Null]}

StartTimes == {T(5, 0), T(12, 0)}

TickMinutes == {10, 61}

MaxTicks == 1

NoAlert == [user |-> "", at |-> 0, rate |-> ""]

NoResult ==
  [kind |-> "none", user |-> "", sensorData |-> [bmp_temp |-> Undefined,
   temperature |-> Undefined, humidity |-> Undefined, pressure |-> Undefined],
   at |-> 0, rate |-> "", settings |-> DEFAULT_USER_SETTINGS, triggered |-> FALSE,
   reason |-> "", alerts |-> <<>>, cooldownMs |-> 0, before |-> NoAlert,
   fault |-> "none", logged |-> 0, notified |-> FALSE]

Forget == result' = NoResult

\* no settings route was called
NoReply == [route |-> "none", body |-> <<>>, status |-> 0]

\* POST /api/save-settings with a body and a caller out of the given sets
PostNotificationSettingsFrom(payloads, users) ==
  /\ \E payload \in payloads, userId \in users :
       \E done \in {setNotificationSettings(app_settings, user_settings, payload, userId)} :
         /\ app_settings' = done.app
         /\ user_settings' = IF user_settings_exists THEN done.table ELSE user_settings
         /\ reply' = [route |-> "save-settings", body |-> payload,
                      status |-> IF done.ok THEN 200 ELSE 400]
  /\ Forget
  /\ UNCHANGED <<clock, ticks, lastAlert, engineVars, trace, probe>>
  /\ UNCHANGED <<user_settings_exists, loopVars, inflight, fanout>>

PostNotificationSettings == PostNotificationSettingsFrom(NotificationPayloads, Users)

GetNotificationSettings ==
  /\ \E userId \in Users :
       user_settings' =
         IF user_settings_exists
         THEN getUserSettings(user_settings, userId, getAppSettings(app_settings)).table
         ELSE user_settings
  /\ Forget
  /\ reply' = NoReply
  /\ UNCHANGED <<app_settings, clock, ticks, lastAlert, engineVars, trace, probe>>
  /\ UNCHANGED <<user_settings_exists, loopVars, inflight, fanout>>

ProcessThresholdAlerts ==
  /\ \E userId \in Users, sensorData \in GateReadings :
       \E done \in {processThresholdAlerts(app_settings, user_settings, userId,
                                           sensorData, clock)} :
          /\ user_settings' = done.table
          /\ result' = [f \in DOMAIN NoResult |->
                           IF f = "before" THEN lastAlert ELSE done[f]]
          /\ lastAlert' = IF done.triggered
                          THEN [user |-> userId, at |-> clock, rate |-> done.rate]
                          ELSE lastAlert
  /\ reply' = NoReply
  /\ UNCHANGED <<app_settings, clock, ticks, engineVars, trace, probe>>
  /\ UNCHANGED <<user_settings_exists, loopVars, inflight, fanout>>

\* time passes by one of the given numbers of minutes
TickBy(minutes) ==
  /\ ticks < MaxTicks
  /\ \E d \in minutes : clock' = clock + d
  /\ ticks' = ticks + 1
  /\ Forget
  /\ reply' = NoReply
  /\ UNCHANGED <<app_settings, user_settings, lastAlert, engineVars, trace, probe>>
  /\ UNCHANGED <<user_settings_exists, loopVars, inflight, fanout>>

\* what the thresholds page posts: one well-formed body, and bodies with one
\* field null, empty, missing, not a numeral, NaN or infinite
GoodThresholds ==
  [aqi |-> Num(450), uv |-> Num(7), bmp_temp |-> Num(25), pressure |-> Num(990),
   rain_percentage |-> Num(70), humidity_threshold |-> Undefined]

ThresholdPayloads ==
  {GoodThresholds,
   [GoodThresholds EXCEPT !.bmp_temp = Null],
   [GoodThresholds EXCEPT !.aqi = EmptyText],
   [GoodThresholds EXCEPT !.aqi = Undefined],
   [GoodThresholds EXCEPT !.uv = Text],
   [GoodThresholds EXCEPT !.pressure = NaN],
   [GoodThresholds EXCEPT !.rain_percentage = PosInf]}

\* POST /api/set-thresholds with a body out of the given set
PostThresholdSettingsFrom(payloads) ==
  /\ \E payload \in payloads :
       \E done \in {setThresholdSettings(app_settings, user_settings, payload,
                                        DEFAULT_USER_ID)} :
         /\ app_settings' = done.app
         /\ user_settings' = IF user_settings_exists THEN done.table ELSE user_settings
         /\ reply' = [route |-> "set-thresholds", body |-> payload,
                      status |-> IF done.ok THEN 200 ELSE 400]
  /\ Forget
  /\ UNCHANGED <<clock, ticks, lastAlert, engineVars, trace, probe>>
  /\ UNCHANGED <<user_settings_exists, loopVars, inflight, fanout>>

PostThresholdSettings == PostThresholdSettingsFrom(ThresholdPayloads)

\* one call of processThresholdAlerts in which at most one call fails
ProcessThresholdAlertsUnderFaults ==
  /\ \E userId \in Users, sensorData \in GateReadings, fault \in Faults :
       \E ran \in {processThresholdAlerts(app_settings,
                      seenBy(user_settings_exists, user_settings, userId),
                      userId, sensorData, clock)} :
       \E done \in {processThresholdAlertsUnder(ran, app_settings, user_settings_exists,
                        user_settings, userId, fault)} :
          /\ user_settings' = done.table
          /\ result' = [f \in DOMAIN NoResult |->
                          IF f = "before" THEN lastAlert ELSE done[f]]
          /\ lastAlert' = IF done.triggered
                          THEN [user |-> userId, at |-> clock, rate |-> done.rate]
                          ELSE lastAlert
  /\ reply' = NoReply
  /\ UNCHANGED <<app_settings, clock, ticks, engineVars, trace, probe>>
  /\ UNCHANGED <<user_settings_exists, loopVars, inflight, fanout>>

\* how many calls of processThresholdAlerts may be suspended at once
MaxOverlap == 2

\* processThresholdAlerts up to its first await after the reads: a call that
\* ends not triggered returns at once, a call that found a crossing and no
\* cooldown is suspended in logAlertEvent / insertWebNotification
BeginEvaluation ==
  /\ Len(inflight) < MaxOverlap
  /\ \E sensorData \in GateReadings :
       \E done \in {processThresholdAlerts(app_settings, user_settings, DEFAULT_USER_ID,
                                           sensorData, clock)} :
         IF done.triggered
         THEN /\ inflight' = Append(inflight,
                                [eval |-> [done EXCEPT !.table = <<>>],
                                 pc |-> "delivering", stamp |-> 0])
              /\ Forget
         ELSE /\ inflight' = inflight
              /\ result' = [f \in DOMAIN NoResult |->
                              IF f = "before" THEN lastAlert ELSE done[f]]
  /\ reply' = NoReply
  /\ UNCHANGED <<app_settings, user_settings, clock, ticks, lastAlert>>
  /\ UNCHANGED <<engineVars, trace, probe, user_settings_exists, loopVars, fanout>>

\* line 816: the suspended call resumes, takes new Date() and sends the upsert
SendTimestamp ==
  /\ \E i \in 1..Len(inflight) :
       /\ inflight[i].pc = "delivering"
       /\ inflight' = [inflight EXCEPT ![i].pc = "writing", ![i].stamp = clock]
  /\ Forget
  /\ reply' = NoReply
  /\ UNCHANGED <<app_settings, user_settings, clock, ticks, lastAlert>>
  /\ UNCHANGED <<engineVars, trace, probe, user_settings_exists, loopVars, fanout>>

\* the database applies one of the upserts that were sent, and the call that
\* sent it returns Triggered
ApplyTimestamp ==
  /\ \E i \in 1..Len(inflight) :
       /\ inflight[i].pc = "writing"
       /\ user_settings' = upsertUserSettings(user_settings, inflight[i].eval.user,
                              [last_alert_sent |-> Num(inflight[i].stamp)])
       /\ result' = [f \in DOMAIN NoResult |->
                       IF f = "before" THEN lastAlert ELSE inflight[i].eval[f]]
       /\ lastAlert' = [user |-> inflight[i].eval.user, at |-> inflight[i].eval.at,
                        rate |-> inflight[i].eval.rate]
       /\ inflight' = RemoveAt(inflight, i)
  /\ reply' = NoReply
  /\ UNCHANGED <<app_settings, clock, ticks>>
  /\ UNCHANGED <<engineVars, trace, probe, user_settings_exists, loopVars, fanout>>

Tick == TickBy(TickMinutes)

\* the tables as the migrations leave them
InitGate(startTime) ==
  /\ app_settings = DEFAULT_APP_SETTINGS
  /\ user_settings = [u \in {DEFAULT_USER_ID} |-> UserSettingsColumnDefaults]
  /\ clock = hhmmToMinutes(startTime)
  /\ ticks = 0
  /\ result = NoResult
  /\ lastAlert = NoAlert
  /\ reply = NoReply

\* no evaluation suspended, no fan-out under way
NoFanout == [chatIds |-> <<>>, bot |-> FALSE, next |-> 1, sends |-> <<>>, done |-> TRUE]

\* Date.now() when the process starts, in ms
NowAtStart == 100000

InitLoop ==
  /\ tasks = <<>>
  /\ lastAlertTime = 0
  /\ dateNow = NowAtStart
  /\ inserts = <<>>
  /\ alertsSent = <<>>
  /\ suppressed = {}

InitSide == user_settings_exists = TRUE /\ inflight = <<>> /\ fanout = NoFanout /\ InitLoop

NoProbe ==
  [fn |-> "none", metric |-> "", value |-> Null, limit |-> 0, above |-> TRUE,
   crossed |-> FALSE]

Init ==
  /\ InitEngine
  /\ trace = <<>>
  /\ InitGate(T(5, 0))
  /\ probe = NoProbe
  /\ InitSide

Next ==
  \/ InitializeApp
  \/ ResumeLoad
  \/ PostSetThresholds
  \/ DbDeleteRow
  \/ MqttMessage

Spec == Init /\ [][Next]_vars

----------------------------------------------------------------------------
(* Scenario runs: the engine started on the single rule aqi above 450, fed *)
(* aqi readings one message at a time, each recorded with its outcome.     *)

aqiReading(v) ==
  [bmp_temp |-> Undefined, pressure |-> Undefined, co2_ppm |-> Num(v),
   uv_index |-> Undefined, rain_pcnt |-> Undefined]

ScenarioMessage ==
  /\ Len(trace) < MaxTrace
  /\ \E v \in ScenarioValues :
       /\ HandleMessage(aqiReading(v), TRUE)
       /\ trace' = Append(trace,
                          [value |-> v,
                           latchedBefore |-> currentAlertState["aqi"].alarming,
                           latchedAfter |-> currentAlertState'["aqi"].alarming,
                           alerts |-> msgs'])
  /\ UNCHANGED <<gateVars, probe, sideVars>>

InitScenario ==
  /\ alert_thresholds =
       [m \in {"aqi"} |-> [threshold_value |-> RuleValue(m), alert_if_above |-> TRUE]]
  /\ ALERT_THRESHOLDS = getThresholds(alert_thresholds, TRUE).map
  /\ currentAlertState = freshAlertState(ALERT_THRESHOLDS)
  /\ pendingLoads = <<>>
  /\ started = TRUE
  /\ lastData = NoData
  /\ prevAlertState = EmptyMap
  /\ msgs = <<>>
  /\ lastOp = "load"
  /\ trace = <<>>
  /\ InitGate(T(5, 0))
  /\ probe = NoProbe
  /\ InitSide

NextScenario == ScenarioMessage

SpecScenario == InitScenario /\ [][NextScenario]_vars

----------------------------------------------------------------------------
(* The gated engine on its own: the settings API, the clock and            *)
(* processThresholdAlerts, which no route or handler of the repository     *)
(* calls.                                                                  *)

InitGated ==
  /\ InitEngine
  /\ alert_thresholds["aqi"].alert_if_above
  /\ trace = <<>>
  /\ \E startTime \in StartTimes : InitGate(startTime)
  /\ probe = NoProbe
  /\ InitSide

NextGated ==
  \/ PostNotificationSettings
  \/ GetNotificationSettings
  \/ ProcessThresholdAlerts
  \/ Tick

SpecGate == InitGated /\ [][NextGated]_vars

----------------------------------------------------------------------------
(* The gate when calls fail: the database may lack the relation            *)
(* user_settings, and any one call of an evaluation may end in an error.   *)

\* the bodies posted between evaluations: one accepted and one refused each
FaultNotificationPayloads ==
  {p \in NotificationPayloads :
     /\ p.alert_rate = "hourly" /\ p.notification_enabled = Undefined}

FaultThresholdPayloads ==
  {GoodThresholds, [GoodThresholds EXCEPT !.aqi = Undefined]}

InitFaults ==
  /\ InitEngine
  /\ alert_thresholds["aqi"].alert_if_above
  /\ trace = <<>>
  /\ InitGate(T(12, 0))
  /\ probe = NoProbe
  /\ user_settings_exists \in BOOLEAN
  /\ inflight = <<>>
  /\ fanout = NoFanout
  /\ InitLoop

NextFaults ==
  \/ PostNotificationSettingsFrom(FaultNotificationPayloads, {DEFAULT_USER_ID})
  \/ PostThresholdSettingsFrom(FaultThresholdPayloads)
  \/ ProcessThresholdAlertsUnderFaults
  \/ TickBy({61})

SpecFaults == InitFaults /\ [][NextFaults]_vars

----------------------------------------------------------------------------
(* Calls of processThresholdAlerts that overlap: each await is a point     *)
(* where another call may run, and the upserts that were sent reach the    *)
(* database in any order.                                                  *)

InitOverlap ==
  /\ InitEngine
  /\ alert_thresholds["aqi"].alert_if_above
  /\ trace = <<>>
  /\ \E startTime \in StartTimes : InitGate(startTime)
  /\ probe = NoProbe
  /\ InitSide

NextOverlap ==
  \/ BeginEvaluation
  \/ SendTimestamp
  \/ ApplyTimestamp
  \/ Tick

SpecOverlap == InitOverlap /\ [][NextOverlap]_vars

----------------------------------------------------------------------------
(* Fan-out: the alerts of an evaluation are sent to every subscriber, one  *)
(* awaited sendMessage at a time, while the engine goes on.                *)

\* the longest list of subscribers
MaxRecipients == 2

ChatIds == {"chat-1", "chat-2"}

\* what getSubscribers may return: any list of chat ids, repeats included
SubscriberLists ==
  UNION {[1..n -> ChatIds] : n \in 0..MaxRecipients}

\* sendStructuredAlert up to its loop: without a bot or without recipients it
\* returns at once
sendStructuredAlert(chatIds, botInstance) ==
  [chatIds |-> chatIds, bot |-> botInstance, next |-> 1, sends |-> <<>>,
   done |-> ~botInstance \/ Len(chatIds) = 0]

\* a loop that gives up at the first failed send
afterSendAborting(f, ok) ==
  [f EXCEPT !.sends = Append(@, [cid |-> f.chatIds[f.next], ok |-> ok]),
            !.next = @ + 1,
            !.done = ~ok \/ f.next + 1 > Len(f.chatIds)]

\* one turn of the loop: the send to chatIds[next] has succeeded or thrown,
\* the catch logs, and the loop goes on to the next id
afterSend(f, ok) ==
  [f EXCEPT !.sends = Append(@, [cid |-> f.chatIds[f.next], ok |-> ok]),
            !.next = @ + 1,
            !.done = f.next + 1 > Len(f.chatIds)]

\* a handler that would wait for the dispatch before it returns
dispatchAwaitedAlways == TRUE

\* if (msgs.length) sendAlertToAll(msgs): the call is not awaited, neither by
\* checkForAlerts nor by the message handler
dispatchAwaited == FALSE

\* an MQTT message whose evaluation may emit alerts, which sendAlertToAll
\* passes to sendStructuredAlert with the subscribers read at that time
AlertMessage ==
  /\ Len(trace) < MaxTrace
  /\ dispatchAwaited => fanout.done
  /\ \E v \in ScenarioValues :
       /\ HandleMessage(aqiReading(v), TRUE)
       /\ trace' = Append(trace,
                          [value |-> v,
                           latchedBefore |-> currentAlertState["aqi"].alarming,
                           latchedAfter |-> currentAlertState'["aqi"].alarming,
                           alerts |-> msgs'])
       /\ IF msgs' = <<>>
          THEN fanout' = fanout
          ELSE /\ fanout.done
               /\ \E chatIds \in SubscriberLists, botInstance \in BOOLEAN :
                    fanout' = sendStructuredAlert(chatIds, botInstance)
  /\ UNCHANGED <<gateVars, probe, user_settings_exists, loopVars, reply, inflight>>

\* await botInstance.sendMessage(cid, ...) settles
SendNext ==
  /\ ~fanout.done
  /\ \E ok \in BOOLEAN : fanout' = afterSend(fanout, ok)
  /\ UNCHANGED <<engineVars, trace, gateVars, probe>>
  /\ UNCHANGED <<user_settings_exists, loopVars, reply, inflight>>

NextFanout ==
  \/ AlertMessage
  \/ SendNext

SpecFanout == InitScenario /\ [][NextFanout]_vars

\* C26: the dispatch neither blocks the next evaluation nor undoes the
\* decision. While sendAlertToAll is still pending the handler can take the
\* next reading, and whatever the sends do (succeed, fail, never settle) the
\* metric whose alert was the last thing evaluated stays latched.
C26_DispatchDetached ==
  /\ (~fanout.done /\ Len(trace) < MaxTrace) => ENABLED AlertMessage
  /\ (Len(trace) > 0 /\ trace[Len(trace)].alerts # <<>>)
       => currentAlertState["aqi"] = [alarming |-> TRUE, consecutiveCount |-> 0]

\* a crossing reading was evaluated while the dispatch of the alert before
\* it was pending, a send of that dispatch has failed, and aqi is latched
C26_Witness ==
  /\ Len(trace) = 3
  /\ trace[2].alerts # <<>>
  /\ trace[3].alerts = <<>> /\ trace[3].latchedAfter
  /\ ~fanout.done
  /\ \E j \in 1..Len(fanout.sends) : ~fanout.sends[j].ok
  /\ currentAlertState["aqi"].alarming

----------------------------------------------------------------------------
(* The settings routes on their own, over the rows the database may hold:  *)
(* alert_rate is a text column and report_times a jsonb column, neither    *)
(* with a constraint.                                                      *)

StoredAppRows ==
  {DEFAULT_APP_SETTINGS,
   [DEFAULT_APP_SETTINGS EXCEPT !.alert_rate = "hourly"],
   [DEFAULT_APP_SETTINGS EXCEPT !.alert_rate = "weekly"],
   [DEFAULT_APP_SETTINGS EXCEPT !.report_times = <<>>]}

InitSettings ==
  /\ InitEngine
  /\ alert_thresholds["aqi"].alert_if_above
  /\ trace = <<>>
  /\ app_settings \in StoredAppRows
  /\ user_settings = [u \in {DEFAULT_USER_ID} |-> UserSettingsColumnDefaults]
  /\ clock = hhmmToMinutes(T(12, 0))
  /\ ticks = 0
  /\ result = NoResult
  /\ lastAlert = NoAlert
  /\ reply = NoReply
  /\ probe = NoProbe
  /\ InitSide

NextSettings ==
  \/ PostNotificationSettings
  \/ PostThresholdSettings
  \/ GetNotificationSettings

SpecSettings == InitSettings /\ [][NextSettings]_vars

----------------------------------------------------------------------------
(* The two crossing tests on their own, applied to one value and one limit *)

ProbeValues ==
  {Num(26), Num(27), Num(28), Num(29), Num(30), PosInf, NegInf, NaN, Null, Undefined}

ProbeLimits == {27, 28, 29}

thresholdColumn(metric) ==
  CASE metric = "bmp_temp" -> "temp_threshold"
    [] metric = "humidity" -> "humidity_threshold"
    [] metric = "pressure" -> "pressure_threshold"

\* checkThresholdAndState on an entry at rest: the reading counts as crossed
\* when the entry's count moves
ProbeCheckThresholdAndState ==
  /\ \E v \in ProbeValues, limit \in ProbeLimits, above \in BOOLEAN :
       LET thr == [m \in {"aqi"} |-> [value |-> Num(limit), alert_if_above |-> above]]
           res == checkThresholdAndState(thr, freshAlertState(thr), "aqi", "aqi", v)
       IN probe' = [fn |-> "checkThresholdAndState", metric |-> "aqi", value |-> v,
                    limit |-> limit, above |-> above,
                    crossed |-> res.st["aqi"].consecutiveCount = 1]
  /\ UNCHANGED <<engineVars, trace, gateVars, sideVars>>

\* the alerts array of processThresholdAlerts for a reading of one metric
ProbeProcessThresholdAlerts ==
  /\ \E v \in ProbeValues, limit \in ProbeLimits,
        metric \in {"bmp_temp", "humidity", "pressure"} :
       LET sensorData == [f \in {"bmp_temp", "temperature", "humidity", "pressure"} |->
                            IF f = metric THEN v ELSE Undefined]
           userSettings ==
             [DEFAULT_USER_SETTINGS EXCEPT ![thresholdColumn(metric)] = Num(limit)]
       IN probe' = [fn |-> "processThresholdAlerts", metric |-> metric, value |-> v,
                    limit |-> limit, above |-> metric # "pressure",
                    crossed |-> Len(crossingAlerts(sensorData, userSettings)) > 0]
  /\ UNCHANGED <<engineVars, trace, gateVars, sideVars>>

InitCrossing ==
  /\ InitEngine
  /\ alert_thresholds["aqi"].alert_if_above
  /\ trace = <<>>
  /\ InitGate(T(5, 0))
  /\ probe = NoProbe
  /\ InitSide

NextCrossing == ProbeCheckThresholdAndState \/ ProbeProcessThresholdAlerts

SpecCrossing == InitCrossing /\ [][NextCrossing]_vars


----------------------------------------------------------------------------
(* The event loop of server.js: checkForAlerts and the tail of             *)
(* loadThresholdsFromDB taken one statement at a time. A handler that has   *)
(* begun gives way to another one only at an await.                         *)

MaxTasks == 2

\* a loop body and a reload tail that would await between their statements
awaitsInsideAlways(task) == TRUE

\* lines 297-309 and 326-331 hold no await: a task that has begun is never
\* suspended before it returns
awaitsInside(task) == FALSE

\* task i (0 for a handler about to begin) may take its next statement: every
\* other task that has begun is suspended at an await
MayRun(i) == \A j \in 1..Len(tasks) : j # i => awaitsInside(tasks[j])

AtomicReadings ==
  {[bmp_temp |-> Undefined, pressure |-> Undefined, co2_ppm |-> a,
    uv_index |-> Undefined, rain_pcnt |-> b] :
     a \in {Num(300), Num(520)}, b \in {Num(50), Num(90)}}

\* the MQTT handler after insertSensorData: checkForAlerts begins
EnterCheckForAlerts ==
  /\ started
  /\ MayRun(0)
  /\ Len(tasks) < MaxTasks
  /\ \E r \in AtomicReadings :
       \E data \in {normalizeReading(r)} :
         IF DOMAIN ALERT_THRESHOLDS = {}
           THEN /\ tasks' = tasks
                /\ lastData' = data
                /\ prevAlertState' = currentAlertState
                /\ msgs' = <<>>
                /\ lastOp' = "eval"
           ELSE /\ tasks' = Append(tasks,
                                   [kind |-> "eval", pc |-> 1, data |-> data,
                                    acc |-> <<>>, st0 |-> currentAlertState,
                                    thr0 |-> ALERT_THRESHOLDS])
                /\ NoEval("running")
  /\ UNCHANGED <<alert_thresholds, ALERT_THRESHOLDS, currentAlertState,
                 pendingLoads, started>>
  /\ UNCHANGED <<trace, gateVars, probe, user_settings_exists, reply, inflight, fanout,
                 spamVars>>

\* one turn of the for loop of checkForAlerts; the last one returns
NextCheck ==
  /\ \E i \in 1..Len(tasks) :
       /\ tasks[i].kind = "eval"
       /\ MayRun(i)
       /\ \E r \in {checkThresholdAndState(ALERT_THRESHOLDS, currentAlertState,
                                           checks[tasks[i].pc][1],
                                           checks[tasks[i].pc][2],
                                           tasks[i].data[checks[tasks[i].pc][3]])} :
            /\ currentAlertState' = r.st
            /\ IF r.threw \/ tasks[i].pc = Len(checks)
                 THEN /\ tasks' = RemoveAt(tasks, i)
                      /\ lastData' = tasks[i].data
                      /\ prevAlertState' = tasks[i].st0
                      /\ msgs' = pushed(tasks[i].acc, r.alertMsg)
                      /\ lastOp' = IF r.threw THEN "eval_threw" ELSE "eval"
                 ELSE /\ tasks' = [tasks EXCEPT ![i].pc = @ + 1,
                                                ![i].acc = pushed(@, r.alertMsg)]
                      /\ NoEval("running")
  /\ UNCHANGED <<alert_thresholds, ALERT_THRESHOLDS, pendingLoads, started>>
  /\ UNCHANGED <<trace, gateVars, probe, user_settings_exists, reply, inflight, fanout,
                 spamVars>>

\* await getThresholds() settles and loadThresholdsFromDB resumes
EnterLoad ==
  /\ MayRun(0)
  /\ Len(tasks) < MaxTasks
  /\ \E i \in 1..Len(pendingLoads) :
       /\ pendingLoads' = RemoveAt(pendingLoads, i)
       /\ IF pendingLoads[i].isNull
            THEN /\ tasks' = tasks
                 /\ NoEval("load_failed")
            ELSE /\ tasks' = Append(tasks,
                                    [kind |-> "load", pc |-> 1, data |-> NoData,
                                     acc |-> <<>>, st0 |-> currentAlertState,
                                     thr0 |-> pendingLoads[i].map])
                 /\ NoEval("running")
  /\ UNCHANGED <<alert_thresholds, ALERT_THRESHOLDS, currentAlertState, started>>
  /\ UNCHANGED <<trace, gateVars, probe, user_settings_exists, reply, inflight, fanout,
                 spamVars>>

\* lines 327-331 one at a time: ALERT_THRESHOLDS = tFromDB; currentAlertState =
\* {}; the forEach that creates the entries
NextLoadStatement ==
  /\ \E i \in 1..Len(tasks) :
       /\ tasks[i].kind = "load"
       /\ MayRun(i)
       /\ IF tasks[i].pc = 1
            THEN /\ ALERT_THRESHOLDS' = tasks[i].thr0
                 /\ UNCHANGED currentAlertState
            ELSE /\ currentAlertState' =
                      IF tasks[i].pc = 2 THEN EmptyMap
                                         ELSE freshAlertState(ALERT_THRESHOLDS)
                 /\ UNCHANGED ALERT_THRESHOLDS
       /\ IF tasks[i].pc = 3
            THEN /\ tasks' = RemoveAt(tasks, i)
                 /\ NoEval("load")
            ELSE /\ tasks' = [tasks EXCEPT ![i].pc = @ + 1]
                 /\ NoEval("running")
  /\ UNCHANGED <<alert_thresholds, pendingLoads, started>>
  /\ UNCHANGED <<trace, gateVars, probe, user_settings_exists, reply, inflight, fanout,
                 spamVars>>

\* POST /api/set-thresholds arrives while no handler is on the stack
PostBetweenTasks == MayRun(0) /\ PostSetThresholds

InitAtomic ==
  /\ alert_thresholds =
       [m \in {"aqi", "rain_percentage"} |->
          [threshold_value |-> RuleValue(m), alert_if_above |-> TRUE]]
  /\ ALERT_THRESHOLDS = getThresholds(alert_thresholds, TRUE).map
  /\ currentAlertState = freshAlertState(ALERT_THRESHOLDS)
  /\ pendingLoads = <<>>
  /\ started = TRUE
  /\ lastData = NoData
  /\ prevAlertState = EmptyMap
  /\ msgs = <<>>
  /\ lastOp = "load"
  /\ trace = <<>>
  /\ InitGate(T(5, 0))
  /\ probe = NoProbe
  /\ InitSide

NextAtomic ==
  \/ EnterCheckForAlerts
  \/ NextCheck
  \/ EnterLoad
  \/ NextLoadStatement
  \/ PostBetweenTasks

SpecAtomic == InitAtomic /\ [][NextAtomic]_vars

\* C23: one checkForAlerts call and one reload are each atomic. No two
\* handlers are ever part-way through at once; while an evaluation is running
\* the thresholds are the ones it began with; an evaluation that returns has
\* produced exactly what the whole loop produces from the state it began in;
\* and a reload that returns leaves the zeroed table of the thresholds it
\* installed, the half-done tables in between being seen by no evaluation.
C23_HandlersRunToCompletion ==
  /\ Len(tasks) <= 1
  /\ \A i \in 1..Len(tasks) :
       tasks[i].kind = "eval" => ALERT_THRESHOLDS = tasks[i].thr0
  /\ lastOp = "eval" =>
       \E whole \in {checkForAlerts(ALERT_THRESHOLDS, prevAlertState, lastData)} :
         /\ ~whole.threw
         /\ currentAlertState = whole.st
         /\ msgs = whole.msgs
  /\ lastOp = "load" => currentAlertState = freshAlertState(ALERT_THRESHOLDS)
  /\ lastOp = "eval_threw" =>
       checkForAlerts(ALERT_THRESHOLDS, prevAlertState, lastData).threw

\* an evaluation has returned with an alert while a reload was waiting for
\* the database
C23_Witness ==
  /\ lastOp = "eval"
  /\ msgs # <<>>
  /\ pendingLoads # <<>>
  /\ tasks = <<>>

----------------------------------------------------------------------------
(* The variant of part_001: checkThresholdAndState that clears a latched   *)
(* metric by counting non-crossing readings, on the single rule aqi above  *)
(* 450.                                                                    *)

MaxHysteresisTrace == 5

HysteresisValues == {300, 500, 520}

\* part_001 lines 417-457 on one state entry: the entry afterwards and
\* whether a message is returned
checkThresholdAndStateHysteresis(tInfo, state, currentValue) ==
  IF isMet(tInfo, currentValue)
    THEN IF ~state.alarming
           THEN IF reachedRequired(state.consecutiveCount + 1)
                  THEN [state |-> [alarming |-> TRUE, consecutiveCount |-> 0],
                        alert |-> TRUE]
                  ELSE [state |-> [state EXCEPT !.consecutiveCount = @ + 1],
                        alert |-> FALSE]
           ELSE [state |-> state, alert |-> FALSE]
    ELSE IF state.alarming
           THEN IF reachedRequired(state.consecutiveCount + 1)
                  THEN [state |-> [alarming |-> FALSE, consecutiveCount |-> 0],
                        alert |-> FALSE]
                  ELSE [state |-> [state EXCEPT !.consecutiveCount = @ + 1],
                        alert |-> FALSE]
           ELSE [state |-> [state EXCEPT !.consecutiveCount = 0], alert |-> FALSE]

\* one MQTT message of the variant: the aqi check of its checkForAlerts
HysteresisMessage ==
  /\ Len(trace) < MaxHysteresisTrace
  /\ \E v \in HysteresisValues :
       \E data \in {normalizeReading(aqiReading(v))} :
         \E r \in {checkThresholdAndStateHysteresis(ALERT_THRESHOLDS["aqi"],
                                                    currentAlertState["aqi"],
                                                    data.aqi)} :
           /\ currentAlertState' = [currentAlertState EXCEPT !["aqi"] = r.state]
           /\ lastData' = data
           /\ prevAlertState' = currentAlertState
           /\ msgs' = IF r.alert
                        THEN << [metric |-> "aqi", value |-> data.aqi, comp |-> "Above",
                                 tVal |-> ALERT_THRESHOLDS["aqi"].value] >>
                        ELSE <<>>
           /\ lastOp' = "eval"
           /\ trace' = Append(trace,
                              [value |-> v,
                               latchedBefore |-> currentAlertState["aqi"].alarming,
                               latchedAfter |-> r.state.alarming,
                               alerts |-> msgs'])
  /\ UNCHANGED <<alert_thresholds, ALERT_THRESHOLDS, pendingLoads, started>>
  /\ UNCHANGED <<gateVars, probe, sideVars>>

NextHysteresis == HysteresisMessage

SpecHysteresis == InitScenario /\ [][NextHysteresis]_vars

\* reading k of the run is on the safe side of the aqi limit
NonCrossingAt(k) == ~isMet(ALERT_THRESHOLDS["aqi"], Num(trace[k].value))

\* C24: in the variant of part_001 a latched alarm is cleared only by the
\* second of two non-crossing readings in a row, so that non-crossing,
\* crossing, non-crossing leaves the metric alarming.
C24_ClearsOnlyAfterTwoInARow ==
  \A k \in 1..Len(trace) :
    (trace[k].latchedBefore /\ ~trace[k].latchedAfter)
      => /\ k >= 2
         /\ NonCrossingAt(k)
         /\ NonCrossingAt(k - 1)

----------------------------------------------------------------------------
(* The anti-spam variant of the MQTT client (part_005 lines 13-73): every  *)
(* message is stored, and a High CO2 alert is raised at most once per 30 s. *)

\* the anti-spam window in ms
ANTI_SPAM_MS == 30000

\* the alert limit of co2_ppm
CO2_LIMIT == 2000

\* how far Date.now() moves between two observations, in ms
TickMs == 10000

MaxSpamTicks == 4

MaxSpamMessages == 3

SpamValues == {1500, 2500}

\* a test that lets every reading through
insideWindowNever(t, last) == FALSE

\* if (now - lastAlertTime < 30000) return;
insideWindow(t, last) == t - last < ANTI_SPAM_MS

\* a message arrives: the handler copies the fields and calls
\* insertSensorData(data), at whose await it is suspended
SpamReceive ==
  /\ Len(inserts) < MaxSpamMessages
  /\ Len(tasks) < MaxTasks
  /\ \E v \in SpamValues :
       /\ inserts' = Append(inserts, v)
       /\ tasks' = Append(tasks,
                          [kind |-> "message", pc |-> "inserting",
                           id |-> Len(inserts) + 1, co2_ppm |-> v])
  /\ UNCHANGED <<lastAlertTime, dateNow, alertsSent, suppressed>>
  /\ UNCHANGED <<engineVars, trace, gateVars, probe,
                 user_settings_exists, reply, inflight, fanout>>

\* insertSensorData settles and the handler runs to its next await: the
\* anti-spam test, the limit test, lastAlertTime = now and the call of
\* insertWebNotification
SpamAfterInsert ==
  /\ \E i \in 1..Len(tasks) :
       /\ tasks[i].pc = "inserting"
       /\ IF insideWindow(dateNow, lastAlertTime)
            THEN /\ tasks' = RemoveAt(tasks, i)
                 /\ suppressed' = suppressed \cup {tasks[i].id}
                 /\ UNCHANGED <<lastAlertTime, alertsSent>>
            ELSE IF tasks[i].co2_ppm > CO2_LIMIT
              THEN /\ lastAlertTime' = dateNow
                   /\ alertsSent' = Append(alertsSent, [channel |-> "web", at |-> dateNow,
                                            id |-> tasks[i].id])
                   /\ tasks' = [tasks EXCEPT ![i].pc = "notifying"]
                   /\ UNCHANGED suppressed
              ELSE /\ tasks' = RemoveAt(tasks, i)
                   /\ UNCHANGED <<lastAlertTime, alertsSent, suppressed>>
  /\ UNCHANGED <<dateNow, inserts>>
  /\ UNCHANGED <<engineVars, trace, gateVars, probe,
                 user_settings_exists, reply, inflight, fanout>>

\* insertWebNotification settles: with a bot and a chat id the handler calls
\* bot.sendMessage, without one it returns
SpamAfterNotification ==
  /\ \E i \in 1..Len(tasks), bot \in BOOLEAN :
       /\ tasks[i].pc = "notifying"
       /\ IF bot
            THEN /\ alertsSent' = Append(alertsSent, [channel |-> "telegram", at |-> dateNow,
                                          id |-> tasks[i].id])
                 /\ tasks' = [tasks EXCEPT ![i].pc = "sending"]
            ELSE /\ alertsSent' = alertsSent
                 /\ tasks' = RemoveAt(tasks, i)
  /\ UNCHANGED <<lastAlertTime, dateNow, inserts, suppressed>>
  /\ UNCHANGED <<engineVars, trace, gateVars, probe,
                 user_settings_exists, reply, inflight, fanout>>

\* bot.sendMessage settles, resolved or rejected into the catch
SpamAfterSend ==
  /\ \E i \in 1..Len(tasks) :
       /\ tasks[i].pc = "sending"
       /\ tasks' = RemoveAt(tasks, i)
  /\ UNCHANGED <<lastAlertTime, dateNow, inserts, alertsSent, suppressed>>
  /\ UNCHANGED <<engineVars, trace, gateVars, probe,
                 user_settings_exists, reply, inflight, fanout>>

\* time passes
SpamTick ==
  /\ dateNow < NowAtStart + MaxSpamTicks * TickMs
  /\ dateNow' = dateNow + TickMs
  /\ UNCHANGED <<tasks, lastAlertTime, inserts, alertsSent, suppressed>>
  /\ UNCHANGED <<engineVars, trace, gateVars, probe,
                 user_settings_exists, reply, inflight, fanout>>

NextAntiSpam ==
  \/ SpamReceive
  \/ SpamAfterInsert
  \/ SpamAfterNotification
  \/ SpamAfterSend
  \/ SpamTick

SpecAntiSpam == InitScenario /\ [][NextAntiSpam]_vars

\* the alerts raised so far: one web request per alert, issued in the step
\* that sets lastAlertTime
Raised == {j \in 1..Len(alertsSent) : alertsSent[j].channel = "web"}

\* C30 as stated: two High CO2 alerts are never sent less than 30 s apart,
\* on either channel, also when handlers overlap at their awaits.
C30_SendsSpaced ==
  \A j, k \in 1..Len(alertsSent) :
    (j < k /\ alertsSent[j].channel = alertsSent[k].channel)
      => alertsSent[k].at - alertsSent[j].at >= ANTI_SPAM_MS

\* C30, amended: two High CO2 alerts are never raised less than 30 s apart,
\* also when handlers overlap at their awaits (the Telegram message of an
\* alert follows whenever its insertWebNotification settles); lastAlertTime
\* is 0 or the time of the latest alert raised and never decreases; and every
\* message, the ones returned at the anti-spam test included, has had its
\* row passed to insertSensorData.
C30_AlertsRaisedSpaced ==
  /\ \A j, k \in Raised : j < k => alertsSent[k].at - alertsSent[j].at >= ANTI_SPAM_MS
  /\ IF Raised = {}
       THEN lastAlertTime = 0
       ELSE /\ \E j \in Raised : lastAlertTime = alertsSent[j].at
            /\ \A j \in Raised : alertsSent[j].at <= lastAlertTime
  /\ \A j \in 1..Len(alertsSent) :
       alertsSent[j].channel = "telegram"
         => \E k \in Raised : k < j /\ alertsSent[k].id = alertsSent[j].id
  /\ \A id \in suppressed : id \in 1..Len(inserts)
  /\ \A i \in 1..Len(tasks) : tasks[i].id \in 1..Len(inserts)

\* two alerts raised exactly 30 s apart by handlers that overlap, and between
\* them a reading over the limit that was stored and returned at the test
C30_Witness ==
  /\ Cardinality(Raised) = 2
  /\ \E j, k \in Raised : alertsSent[k].at - alertsSent[j].at = ANTI_SPAM_MS
  /\ \E id \in suppressed : inserts[id] > CO2_LIMIT
  /\ Len(tasks) = 2
  /\ \A i \in 1..Len(tasks) : tasks[i].pc # "inserting"

----------------------------------------------------------------------------
(* Properties of the server.js engine                                      *)

CheckIds == 1..Len(checks)
MetricOf(i) == checks[i][1]
KeyOf(i) == checks[i][2]
ValueOf(data, i) == data[checks[i][3]]

AlertFor(m, ms) == \E j \in 1..Len(ms) : ms[j].metric = m

\* check i of the last evaluation ran against a rule and a state entry
Evaluated(i) ==
  /\ lastOp = "eval"
  /\ MetricOf(i) \in DOMAIN ALERT_THRESHOLDS
  /\ KeyOf(i) \in DOMAIN prevAlertState

\* a finite reading strictly beyond the limit, on the alarming side
Beyond(rule, v) ==
  /\ v.t = "num"
  /\ IF rule.alert_if_above THEN v.n > rule.value.n ELSE v.n < rule.value.n

\* a finite reading strictly on the safe side of the limit
Within(rule, v) ==
  /\ v.t = "num"
  /\ IF rule.alert_if_above THEN v.n < rule.value.n ELSE v.n > rule.value.n

Idle == [alarming |-> FALSE, consecutiveCount |-> 0]
Counting == [alarming |-> FALSE, consecutiveCount |-> 1]
Latched == [alarming |-> TRUE, consecutiveCount |-> 0]

\* C1: hysteresis confirmation. From a non-alarming metric with count 0 a
\* crossing reading gives no alert and leaves the count at 1 (never on the 1st);
\* the next crossing reading (count 1) gives the alert and latches the metric;
\* a non-crossing reading after one crossing reading gives no alert and leaves
\* the count at 0.
C1_HysteresisConfirmation ==
  \A i \in CheckIds :
    Evaluated(i) =>
      LET rule == ALERT_THRESHOLDS[MetricOf(i)]
          v == ValueOf(lastData, i)
          before == prevAlertState[KeyOf(i)]
          after == currentAlertState[KeyOf(i)]
      IN /\ (before = Idle /\ Beyond(rule, v)) =>
              (after = Counting /\ ~AlertFor(MetricOf(i), msgs))
         /\ (before = Counting /\ Beyond(rule, v)) =>
              (after = Latched /\ AlertFor(MetricOf(i), msgs))
         /\ (before = Counting /\ Within(rule, v)) =>
              (after = Idle /\ ~AlertFor(MetricOf(i), msgs))

\* the 2nd of two crossing aqi readings has just raised the alert
C1_Witness ==
  /\ Evaluated(1)
  /\ prevAlertState["aqi"] = Counting
  /\ Beyond(ALERT_THRESHOLDS["aqi"], lastData.aqi)
  /\ AlertFor("aqi", msgs)

\* C2: immediate clear. One non-crossing reading of an alarming metric sets
\* alarming to false and consecutiveCount to 0 in that same evaluation.
C2_ImmediateClear ==
  \A i \in CheckIds :
    (/\ Evaluated(i)
     /\ prevAlertState[KeyOf(i)].alarming
     /\ Within(ALERT_THRESHOLDS[MetricOf(i)], ValueOf(lastData, i)))
      => currentAlertState[KeyOf(i)] = Idle

\* a latched rain_percentage has just been cleared by one reading below the limit
C2_Witness ==
  /\ Evaluated(5)
  /\ prevAlertState["rain"] = Latched
  /\ Within(ALERT_THRESHOLDS["rain_percentage"], lastData.rain_percentage)
  /\ currentAlertState["rain"] = Idle

\* C21: while a metric is latched, a further crossing reading of it raises no
\* alert and leaves its alarming flag and its consecutiveCount as they were.
C21_LatchedStaysPut ==
  \A i \in CheckIds :
    (/\ Evaluated(i)
     /\ prevAlertState[KeyOf(i)].alarming
     /\ Beyond(ALERT_THRESHOLDS[MetricOf(i)], ValueOf(lastData, i)))
      => /\ currentAlertState[KeyOf(i)] = prevAlertState[KeyOf(i)]
         /\ ~AlertFor(MetricOf(i), msgs)

\* a latched aqi has just been given one more reading beyond its limit
C21_Witness ==
  /\ Evaluated(1)
  /\ prevAlertState["aqi"] = Latched
  /\ Beyond(ALERT_THRESHOLDS["aqi"], lastData.aqi)
  /\ currentAlertState["aqi"] = Latched

\* check i of the last evaluation latched its metric
NewlyConfirmed(i) ==
  /\ KeyOf(i) \in DOMAIN prevAlertState /\ KeyOf(i) \in DOMAIN currentAlertState
  /\ ~prevAlertState[KeyOf(i)].alarming
  /\ currentAlertState[KeyOf(i)].alarming

\* C22: the messages one evaluation hands to sendAlertToAll are exactly one
\* per metric newly confirmed in that evaluation; a metric already latched,
\* one that only reached count 1 and one that did not cross add none, and
\* with no metric newly confirmed there is nothing to dispatch.
C22_OneAlertPerNewTrigger ==
  lastOp = "eval" =>
    /\ \A i \in CheckIds : AlertFor(MetricOf(i), msgs) <=> NewlyConfirmed(i)
    /\ Len(msgs) = Cardinality({i \in CheckIds : NewlyConfirmed(i)})
    /\ \A j \in 1..Len(msgs) : \E i \in CheckIds : msgs[j].metric = MetricOf(i)

\* one evaluation has confirmed aqi and rain_percentage together
C22_Witness ==
  /\ lastOp = "eval"
  /\ NewlyConfirmed(1) /\ NewlyConfirmed(5)
  /\ Len(msgs) = 2

\* the outcome of check i computed from nothing but its own rule, its own
\* previous entry and its own reading
Alone(i) ==
  checkThresholdAndState([m \in {MetricOf(i)} |-> ALERT_THRESHOLDS[MetricOf(i)]],
                         [k \in {KeyOf(i)} |-> prevAlertState[KeyOf(i)]],
                         MetricOf(i), KeyOf(i), ValueOf(lastData, i))

\* C25: metrics are evaluated independently. After an evaluation the entry of
\* each configured metric is what its own rule, previous entry and reading
\* give on their own, its alert likewise, and every entry that belongs to no
\* configured check is as it was.
C25_MetricsIndependent ==
  lastOp = "eval" =>
    /\ DOMAIN currentAlertState = DOMAIN prevAlertState
    /\ \A i \in CheckIds :
         Evaluated(i) =>
           /\ currentAlertState[KeyOf(i)] = Alone(i).st[KeyOf(i)]
           /\ AlertFor(MetricOf(i), msgs) <=> Alone(i).alertMsg # NoMsg
    /\ \A k \in DOMAIN prevAlertState :
         (\A i \in CheckIds : ~(Evaluated(i) /\ KeyOf(i) = k))
           => currentAlertState[k] = prevAlertState[k]

\* one reading moved aqi and rain in different directions: aqi started
\* counting while the latched rain alarm was cleared
C25_Witness ==
  /\ Evaluated(1) /\ Evaluated(5)
  /\ prevAlertState["aqi"] = Idle /\ currentAlertState["aqi"] = Counting
  /\ prevAlertState["rain"] = Latched /\ currentAlertState["rain"] = Idle

\* C27: in every reachable state of the immediate-clear engine each entry's
\* consecutiveCount is 0 or 1 (never negative, never resting at the
\* confirmation threshold), and it is 0 whenever alarming is true.
C27_CountRange ==
  \A k \in DOMAIN currentAlertState :
    /\ currentAlertState[k].consecutiveCount \in {0, REQUIRED_CONSECUTIVE_READINGS - 1}
    /\ currentAlertState[k].consecutiveCount >= 0
    /\ currentAlertState[k].consecutiveCount < REQUIRED_CONSECUTIVE_READINGS
    /\ currentAlertState[k].alarming => currentAlertState[k].consecutiveCount = 0

\* after an evaluation aqi has one crossing reading counted and rain is latched
C27_Witness ==
  /\ lastOp = "eval"
  /\ "aqi" \in DOMAIN currentAlertState /\ currentAlertState["aqi"] = Counting
  /\ "rain" \in DOMAIN currentAlertState /\ currentAlertState["rain"] = Latched

\* C29: after any sequence of reloads and evaluations every metric present in
\* ALERT_THRESHOLDS has its entry under the key the engine looks it up with
\* (rain for rain_percentage, the metric name otherwise), and no evaluation
\* has read the state of a configured metric as undefined.
C29_EveryRuleHasItsEntry ==
  /\ \A m \in DOMAIN ALERT_THRESHOLDS : stateKeyOf(m) \in DOMAIN currentAlertState
  /\ \A i \in CheckIds :
       MetricOf(i) \in DOMAIN ALERT_THRESHOLDS
         => /\ KeyOf(i) = stateKeyOf(MetricOf(i))
            /\ KeyOf(i) \in DOMAIN currentAlertState
  /\ lastOp # "eval_threw"

\* a reload has been followed by an evaluation that found the entry of
\* rain_percentage under rain and counted a crossing reading in it
C29_Witness ==
  /\ Evaluated(5)
  /\ prevAlertState["rain"] = Idle
  /\ currentAlertState["rain"] = Counting
  /\ "rain_percentage" \notin DOMAIN currentAlertState

\* the entries a reload builds: one per state key of the rule set, zeroed
ZeroedFor(thr) ==
  /\ DOMAIN currentAlertState = {stateKeyOf(m) : m \in DOMAIN thr}
  /\ \A k \in DOMAIN currentAlertState : currentAlertState[k] = Idle

C10_SkipsNonFinite ==
  \A i \in CheckIds :
    (/\ lastOp = "eval"
     /\ KeyOf(i) \in DOMAIN prevAlertState
     /\ \/ MetricOf(i) \notin DOMAIN ALERT_THRESHOLDS
        \/ ValueOf(lastData, i).t # "num")
      => /\ currentAlertState[KeyOf(i)] = prevAlertState[KeyOf(i)]
         /\ ~AlertFor(MetricOf(i), msgs)

----------------------------------------------------------------------------
(* Properties of scenario runs                                             *)

ValuesOf(tr) == [j \in 1..Len(tr) |-> tr[j].value]

\* the outcome of a recorded evaluation, in the words of the design: Triggered
\* when alerts went out; suppressed by a delivery gate when a metric was newly
\* confirmed and nothing went out; otherwise no new trigger
Triggered(e) == e.alerts # <<>>
GateSuppressed(e) == e.alerts = <<>> /\ ~e.latchedBefore /\ e.latchedAfter
NoNewTrigger(e) == e.alerts = <<>> /\ ~GateSuppressed(e)

EndToEndRun == ValuesOf(trace) = <<300, 500, 520, 530>>

Aqi520Alert ==
  [metric |-> "aqi", value |-> Num(520), comp |-> "Above", tVal |-> Num(450)]

\* C4 as stated: the readings 300, 500, 520, 530 give Suppressed, Suppressed,
\* Triggered for 520, and a trigger that the cooldown gate suppresses.
C4_Original ==
  EndToEndRun =>
    /\ ~Triggered(trace[1])
    /\ ~Triggered(trace[2])
    /\ trace[3].alerts = <<Aqi520Alert>>
    /\ GateSuppressed(trace[4])

\* C4 amended: the readings 300, 500, 520, 530 give no alert, no alert, the
\* one alert for 520, and no alert for 530 because aqi is already latched: the
\* 4th evaluation confirms no new trigger, and no gate is involved.
C4_EndToEnd ==
  EndToEndRun =>
    /\ NoNewTrigger(trace[1])
    /\ NoNewTrigger(trace[2])
    /\ trace[3].alerts = <<Aqi520Alert>>
    /\ NoNewTrigger(trace[4]) /\ trace[4].latchedBefore /\ trace[4].latchedAfter

\* the four readings of the scenario have been fed
C4_Witness == EndToEndRun /\ lastOp = "eval" /\ lastData.aqi = Num(530)

----------------------------------------------------------------------------
(* Properties of the crossing tests                                        *)

Probed == probe.fn # "none" /\ probe.value.t = "num"

InclusivelyBeyond(v, limit, above) == IF above THEN v >= limit ELSE v <= limit

StrictlyBeyond(v, limit, above) == IF above THEN v > limit ELSE v < limit

\* C3 as stated: in both functions a finite reading counts as crossed iff it is
\* at or beyond the limit (value >= limit for above, value <= limit for below).
C3_Original ==
  Probed => (probe.crossed <=> InclusivelyBeyond(probe.value.n, probe.limit, probe.above))

\* C3 amended: checkThresholdAndState counts a finite reading as crossed iff it
\* is strictly beyond the limit, so a reading equal to the limit does not count;
\* processThresholdAlerts counts it iff it is at or beyond the limit
\* (temperature and humidity above, pressure below).
C3_CrossingTests ==
  Probed =>
    /\ probe.fn = "checkThresholdAndState" =>
         (probe.crossed <=> StrictlyBeyond(probe.value.n, probe.limit, probe.above))
    /\ probe.fn = "processThresholdAlerts" =>
         (probe.crossed <=> InclusivelyBeyond(probe.value.n, probe.limit, probe.above))

\* checkThresholdAndState has been given a reading equal to the limit
C3_Witness ==
  /\ probe.fn = "checkThresholdAndState"
  /\ probe.value = Num(probe.limit)
  /\ ~probe.crossed

----------------------------------------------------------------------------
(* Properties of the gated engine                                          *)

GateEvaluated == result.kind = "evaluation"

MinutesOf(time) == time.h * 60 + time.m

TimeOfDay(r) == r.at % 1440

\* wrap-aware containment, as the design words it
Contains(now, start, end) ==
  IF start <= end THEN start <= now /\ now <= end ELSE now >= start \/ now <= end

InsideWindow(r) ==
  Contains(TimeOfDay(r), MinutesOf(r.settings.notify_start_time),
           MinutesOf(r.settings.notify_end_time))

\* the reading holds a number at or beyond one of the user's limits
CrossesALimit(r) ==
  \/ r.sensorData.bmp_temp.t = "num"
       /\ r.sensorData.bmp_temp.n >= r.settings.temp_threshold.n
  \/ r.sensorData.humidity.t = "num"
       /\ r.sensorData.humidity.n >= r.settings.humidity_threshold.n
  \/ r.sensorData.pressure.t = "num"
       /\ r.sensorData.pressure.n <= r.settings.pressure_threshold.n

\* C5 as stated: an evaluation of a reading in which no metric crosses its
\* limit returns not-triggered with reason no-threshold-crossing, whatever the
\* time of day and the cooldown state, and leaves last_alert_sent unchanged.
C5_NonEvents ==
  GateEvaluated /\ ~CrossesALimit(result) =>
    /\ ~result.triggered
    /\ result.reason = "no-threshold-crossing"
    /\ user_settings[result.user].last_alert_sent = result.settings.last_alert_sent

Overnight(r) ==
  r.settings.notify_start_time = T(22, 0) /\ r.settings.notify_end_time = T(6, 0)

\* C6: an evaluation for a user with notifications enabled is refused with
\* reason outside-notification-window exactly when the time of day is outside
\* the window, by wrap-aware containment; with the window 22:00-06:00 a
\* crossing at 05:00 passes the gate and one at 12:00 is refused.
C6_WindowGate ==
  GateEvaluated /\ result.settings.notification_enabled =>
    /\ result.reason = "outside-notification-window" <=> ~InsideWindow(result)
    /\ Overnight(result) /\ CrossesALimit(result) /\ TimeOfDay(result) = 5 * 60 =>
         result.reason \in {"threshold-crossed", "cooldown-active"}
    /\ Overnight(result) /\ CrossesALimit(result) /\ TimeOfDay(result) = 12 * 60 =>
         result.reason = "outside-notification-window"

\* a crossing has passed the overnight window at 05:00
C6_Witness ==
  /\ GateEvaluated /\ Overnight(result) /\ CrossesALimit(result)
  /\ TimeOfDay(result) = 5 * 60
  /\ result.triggered

\* a crossing evaluated inside the window under alert_rate hourly, for the
\* user whose crossing last triggered, also under hourly
SecondCrossing ==
  /\ GateEvaluated
  /\ result.before.user = result.user
  /\ result.before.rate = "hourly" /\ result.rate = "hourly"
  /\ CrossesALimit(result)
  /\ result.settings.notification_enabled /\ InsideWindow(result)

\* C7 as stated: under alert_rate hourly, a crossing evaluated 10 minutes after
\* one that triggered is refused with reason cooldown-active, and one evaluated
\* 61 minutes after it triggers, whatever per-user row the settings calls left.
C7_CooldownGate ==
  SecondCrossing =>
    /\ result.at - result.before.at = 10 =>
         ~result.triggered /\ result.reason = "cooldown-active"
    /\ result.at - result.before.at = 61 => result.triggered

RateIntervalSeconds(alertRate) ==
  CASE alertRate = "immediate" -> 60
    [] alertRate = "15min" -> 900
    [] alertRate = "30min" -> 1800
    [] alertRate = "hourly" -> 3600

\* C8 as stated: the cooldown gate refuses a crossing exactly when less than
\* the interval of the current alert_rate (60 s, 900 s, 1800 s, 3600 s) has
\* passed since last_alert_sent; no other stored value changes that.
C8_IntervalFromRate ==
  /\ GateEvaluated
  /\ result.reason \in {"cooldown-active", "threshold-crossed"}
  /\ result.settings.last_alert_sent.t = "num"
  => (result.reason = "cooldown-active"
        <=> (result.at - result.settings.last_alert_sent.n) * 60
              < RateIntervalSeconds(result.rate))

----------------------------------------------------------------------------
(* The cooldown timestamp when calls fail                                  *)

\* the last step was a call of processThresholdAlerts that returned Triggered
ReturnedTriggered == result.kind = "evaluation" /\ result.triggered

\* C11 as stated: every evaluation that ends with a triggered result has set
\* last_alert_sent of its scope to the time of the evaluation before it
\* returns, whether or not the alert was logged, stored or delivered.
C11_TimestampOnTrigger ==
  ReturnedTriggered =>
    /\ result.user \in DOMAIN user_settings
    /\ user_settings[result.user].last_alert_sent = Num(result.at)

\* last_alert_sent of a user, null while the user has no row
lastAlertSentIn(table, u) == IF u \in DOMAIN table THEN table[u].last_alert_sent ELSE Null

\* C12: last_alert_sent of a scope changes only in a step that is an
\* evaluation of that scope ending Triggered; the evaluations that end not
\* triggered, the evaluations that throw, and the writes of
\* setNotificationSettings and setThresholdSettings leave it as it was.
C12_OnlyTriggeredWrites ==
  [][\A u \in Users :
       lastAlertSentIn(user_settings', u) # lastAlertSentIn(user_settings, u) =>
         /\ result'.kind = "evaluation" /\ result'.triggered /\ result'.user = u
         /\ reply'.route = "none"]_vars

\* a thresholds write was accepted on the row of a user whose timestamp is set
C12_Witness ==
  /\ reply.route = "set-thresholds" /\ reply.status = 200
  /\ user_settings[DEFAULT_USER_ID].last_alert_sent # Null
  /\ user_settings[DEFAULT_USER_ID].temp_threshold = Num(25)

\* C15: when getAppSettings or getUserSettings fails during
\* processThresholdAlerts the error propagates to the caller and nothing has
\* changed: no alert is logged, no notification is stored, and the settings
\* rows, last_alert_sent included, are as they were before the call.
C15_ReadFailureChangesNothing ==
  [][result'.fault \in {"app_read", "user_read"} =>
       /\ result'.kind = "threw"
       /\ result'.logged = 0 /\ ~result'.notified
       /\ user_settings' = user_settings /\ app_settings' = app_settings]_vars

\* the read of the user's settings failed in an evaluation of a reading that
\* crosses the temperature limit, for a user who has not been alerted yet
C15_Witness ==
  /\ result.kind = "threw" /\ result.fault = "user_read"
  /\ result.sensorData.bmp_temp = Num(30)
  /\ lastAlertSentIn(user_settings, result.user) = Null

----------------------------------------------------------------------------
(* The cooldown when evaluations overlap                                   *)

\* C13 as stated: once last_alert_sent of a scope is set, no step of an
\* evaluation, overlapping ones included, replaces it by an earlier timestamp
\* or by null.
C13_NeverBackward ==
  [][\A u \in Users :
       lastAlertSentIn(user_settings, u) # Null =>
         /\ lastAlertSentIn(user_settings', u) # Null
         /\ lastAlertSentIn(user_settings', u).n >= lastAlertSentIn(user_settings, u).n]_vars

\* C14 as stated: two evaluations of one scope that both return Triggered are
\* at least the cooldown interval apart, also when they overlap.
C14_TriggersApart ==
  (ReturnedTriggered /\ result.before.user = result.user) =>
    (result.at - result.before.at) * 60 * 1000 >= result.cooldownMs

----------------------------------------------------------------------------
(* Fan-out                                                                 *)

\* the chat ids a send was attempted to, in the order of the attempts
attempted(f) == [i \in 1..Len(f.sends) |-> f.sends[i].cid]

\* C16: a failed send does not stop the fan-out.  With a bot running,
\* sendStructuredAlert attempts one send per entry of the list, in list order,
\* whichever sends fail, and a send, failed or not, changes neither the alarm
\* state of a metric nor a cooldown timestamp.
C16_FanoutIsolation ==
  /\ [](fanout.bot =>
          /\ attempted(fanout) = SubSeq(fanout.chatIds, 1, fanout.next - 1)
          /\ fanout.done = (fanout.next > Len(fanout.chatIds)))
  /\ [][Len(fanout'.sends) > Len(fanout.sends) =>
          /\ currentAlertState' = currentAlertState
          /\ user_settings' = user_settings /\ lastAlert' = lastAlert]_vars

\* a fan-out to two recipients has ended although its first send failed, and
\* the alarm that caused it is still latched
C16_Witness ==
  /\ fanout.bot /\ fanout.done
  /\ Len(fanout.chatIds) = 2 /\ Len(fanout.sends) = 2
  /\ ~fanout.sends[1].ok /\ fanout.sends[2].ok
  /\ currentAlertState["aqi"].alarming

----------------------------------------------------------------------------
(* The settings routes                                                     *)

ThresholdFields == {"aqi", "uv", "bmp_temp", "pressure", "rain_percentage"}

\* C17 as stated: whenever one of aqi, uv, bmp_temp, pressure, rain_percentage
\* of the body is missing, null, empty, not a numeral, NaN or infinite,
\* POST thresholds answers 400 and writes nothing to either settings table.
C17_RejectsNonFinite ==
  [][(/\ reply'.route = "set-thresholds"
      /\ \E f \in ThresholdFields : reply'.body[f].t # "num") =>
       /\ reply'.status = 400
       /\ app_settings' = app_settings /\ user_settings' = user_settings]_vars

\* the body has no valid HH:MM entry
NoReportTime(body) == Len(normalizeTimes(body.report_times)) = 0

\* C18 as stated: POST notification preferences answers 400 to a body without
\* a valid report time and to a body whose alert rate is none of immediate,
\* 15min, 30min, hourly, and then leaves both settings tables unchanged.
C18_Original ==
  [][(/\ reply'.route = "save-settings"
      /\ NoReportTime(reply'.body) \/ reply'.body.alert_rate \notin ALLOWED_ALERT_RATES) =>
       /\ reply'.status = 400
       /\ app_settings' = app_settings /\ user_settings' = user_settings]_vars

\* C18 amended: the route answers 400 exactly when the body has no valid
\* report time or names a rate outside the four; a body that names no rate,
\* or a blank one, is taken to ask for immediate.  A refused write leaves
\* both settings tables unchanged.
C18_RejectsInvalid ==
  [][reply'.route = "save-settings" =>
       /\ reply'.status = 400 <=>
            \/ NoReportTime(reply'.body)
            \/ /\ reply'.body.alert_rate # ""
               /\ reply'.body.alert_rate \notin ALLOWED_ALERT_RATES
       /\ reply'.status = 400 =>
            app_settings' = app_settings /\ user_settings' = user_settings]_vars

\* a body naming the rate daily was refused while the stored rate is hourly
C18_Witness ==
  /\ reply.route = "save-settings" /\ reply.status = 400
  /\ reply.body.alert_rate = "daily"
  /\ app_settings.alert_rate = "hourly"

----------------------------------------------------------------------------
(* Readings of any shape                                                   *)

\* the field of the reading an alert of the given type is computed from
fieldOf(sensorData, type) ==
  CASE type = "temperature_high" -> Coalesce(sensorData.bmp_temp, sensorData.temperature)
    [] type = "humidity_high" -> sensorData.humidity
    [] type = "pressure_low" -> sensorData.pressure

\* C20 as stated: processThresholdAlerts completes for a reading of any shape
\* and treats a metric whose field is missing, null or not a number as
\* absent, so that every alert it returns is computed from a field that
\* holds a number.
C20_ShapeIgnored ==
  result.kind # "none" =>
    /\ result.kind = "evaluation"
    /\ \A i \in 1..Len(result.alerts) :
         fieldOf(result.sensorData, result.alerts[i].type).t = "num"

----------------------------------------------------------------------------
(* Alarm episodes: the engine of server.js on the rule aqi above 450, fed  *)
(* readings and threshold reloads, each recorded in the order it happened. *)

MaxEpisodeTrace == 6

\* a reading within the limit, one beyond it, and 0, which the handler
\* stores as null and the engine skips
EpisodeValues == {300, 520, 0}

EpisodeMessage ==
  /\ Len(trace) < MaxEpisodeTrace
  /\ \E v \in EpisodeValues :
       /\ HandleMessage(aqiReading(v), TRUE)
       /\ trace' = Append(trace,
                          [kind |-> "reading",
                           value |-> lastData'.aqi,
                           latchedBefore |-> currentAlertState["aqi"].alarming,
                           latchedAfter |-> currentAlertState'["aqi"].alarming,
                           alerts |-> msgs'])
  /\ UNCHANGED <<gateVars, probe, sideVars>>

\* POST /api/set-thresholds has written the table and loadThresholdsFromDB
\* resumes after its await with the rows it read
EpisodeReload ==
  /\ Len(trace) < MaxEpisodeTrace
  /\ \E tFromDB \in {getThresholds(alert_thresholds, TRUE)} :
       /\ ALERT_THRESHOLDS' = tFromDB.map
       /\ currentAlertState' = freshAlertState(tFromDB.map)
  /\ NoEval("load")
  /\ trace' = Append(trace,
                     [kind |-> "reload",
                      value |-> Null,
                      latchedBefore |-> currentAlertState["aqi"].alarming,
                      latchedAfter |-> FALSE,
                      alerts |-> <<>>])
  /\ UNCHANGED <<alert_thresholds, pendingLoads, started>>
  /\ UNCHANGED <<gateVars, probe, sideVars>>

NextEpisodes == EpisodeMessage \/ EpisodeReload

SpecEpisodes == InitScenario /\ [][NextEpisodes]_vars

\* event k is a reading that raised an alert
TriggerAt(k) == trace[k].kind = "reading" /\ trace[k].alerts # <<>>

\* event k is a reading beyond the limit
CrossingAt(k) ==
  trace[k].kind = "reading" /\ Beyond(ALERT_THRESHOLDS["aqi"], trace[k].value)

\* event k ends an episode: a threshold reload, or a reading that is a number
\* and does not cross
BreakAt(k) ==
  \/ trace[k].kind = "reload"
  \/ /\ trace[k].kind = "reading"
     /\ typeofNumber(trace[k].value)
     /\ ~isMet(ALERT_THRESHOLDS["aqi"], trace[k].value)

\* C28: a metric triggers at most once per alarm episode. Between any two
\* triggers there is a non-crossing reading or a threshold reload, and an
\* unbroken run of crossing readings, begun from the start or right after
\* such a break, triggers exactly once, at its 2nd reading.
C28_OncePerEpisode ==
  /\ \A j, k \in 1..Len(trace) :
       (j < k /\ TriggerAt(j) /\ TriggerAt(k))
         => \E l \in (j + 1)..(k - 1) : BreakAt(l)
  /\ \A a, b \in 1..Len(trace) :
       (/\ a <= b
        /\ a = 1 \/ BreakAt(a - 1)
        /\ \A k \in a..b : CrossingAt(k))
         => \A k \in a..b : TriggerAt(k) <=> k = a + 1

\* two episodes in one run: a trigger, a reload, a second trigger at the 2nd
\* crossing reading after it, and a third crossing reading that raises nothing
C28_Witness ==
  /\ Len(trace) = 6
  /\ TriggerAt(2)
  /\ trace[3].kind = "reload"
  /\ CrossingAt(4) /\ TriggerAt(5)
  /\ CrossingAt(6) /\ ~TriggerAt(6)

====
